---- MODULE Spec2Model ----
(***************************************************************************)
(* X-Slot protocol stack: the AT modem driver (TPMeshATDriver), the        *)
(* protocol manager (Manager) and the node table (NodeTable), modelled as  *)
(* state machines.  Each subsystem has its own specification over the      *)
(* shared variable tuple; the variables of the other subsystems stay at    *)
(* their initial values.                                                   *)
(***************************************************************************)
EXTENDS Integers, Sequences, FiniteSets, TLC

(***************************************************************************)
(* Bounds of the model                                                     *)
(***************************************************************************)
\* total number of sendCommand calls made by the application threads
MaxCmds == 3
\* total number of lines the receiver thread reads from the UART
MaxLines == 3
\* capacity of the node table (template parameter MaxNodes)
MaxNodes == 2
\* largest value of the millisecond clock, which then wraps to 0: the model's
\* stand-in for UINT32_MAX
MaxTime == 3
\* the number of Transport::send calls followed
MaxSends == 3

(***************************************************************************)
(* AT driver: src/src/transport/tpmesh_at_driver.{h,cpp}                   *)
(***************************************************************************)
VARIABLES
  state_,            \* TPMeshATDriver::state_  (IDLE / WAITING_RESPONSE)
  response_buffer_,  \* TPMeshATDriver::response_buffer_
  response_ok_,      \* TPMeshATDriver::response_ok_
  pc,                \* per application thread: position inside sendCommand
  ret,               \* per application thread: what its last sendCommand returned
  uart_tx,           \* commands written to the UART, in order
  rx_log,            \* lines read by the receiver thread, with state_ at that time
  urc_delivered,     \* URC events handed to urc_callback_, in order
  inflight,          \* threads whose transmitted command is not yet resolved
  owner,             \* thread whose sendCommand last entered WAITING_RESPONSE
  last_terminal,     \* terminal line that last ended a WAITING_RESPONSE episode
  at_calls           \* number of sendCommand calls made so far

atVars == <<state_, response_buffer_, response_ok_, pc, ret, uart_tx, rx_log,
            urc_delivered, inflight, owner, last_terminal, at_calls>>

\* Manager: src/src/core/manager.{h,cpp}
VARIABLES
  running_,          \* Manager::running_
  mode_,             \* Manager::mode_  (RunMode)
  transport_,        \* Manager::transport_: which transport object it owns
  seq_,              \* Manager::seq_
  callbacks,         \* which of data_cb_/node_cb_/write_cb_/report_cb_ are set
  last_start,        \* the most recent call of Manager::start and its outcome
  dispatch           \* the last frame given to on_frame_received, the callbacks
                     \* registered at that time, and what the frame caused

mgrVars == <<running_, mode_, transport_, seq_, callbacks, last_start, dispatch>>

\* NodeTable: src/src/core/node_table.h
VARIABLES
  entries_,          \* NodeTable::entries_[0 .. count_-1]
  now,               \* hal_get_timestamp_ms()
  last_op,           \* the most recent NodeTable operation and what it did
  fires_since_update, \* per address: offline callbacks since its last update
  recent             \* the addresses in the table, least recently updated first

ntVars == <<entries_, now, last_op, fires_since_update, recent>>

\* Outbound calls and the serial line: src/src/core/manager.cpp,
\* src/src/transport/direct_transport.cpp, tpmesh_at_driver.cpp
VARIABLES
  last_call,         \* the most recent report/write/query/ping and its outcome
  tx_pc,             \* per sending thread: where it is inside Transport::send
  tx_pending,        \* per sending thread: the bytes it has still to write
  tx_mutex,          \* the thread holding TPMeshATDriver::sync_mutex_
  tx_state,          \* TPMeshATDriver::state_ on the sending path
  wire,              \* the bytes written to the serial port, in order
  tx_calls           \* number of Transport::send calls made so far

outVars == <<last_call, tx_pc, tx_pending, tx_mutex, tx_state, wire, tx_calls>>

\* Threads inside NodeTable methods: src/src/core/node_table.h
VARIABLES
  nt_in              \* per thread: the NodeTable method it is executing

raceVars == <<nt_in>>

\* Stopping the receiver: src/src/core/manager.cpp (Manager::stop),
\* src/src/transport/tpmesh_at_driver.cpp (close, rxThreadFunc),
\* src/src/transport/direct_transport.cpp (direct_stop)
VARIABLES
  drv_running,       \* TPMeshATDriver::running_ / direct_transport_impl::running
  rx_pc,             \* where the receiver thread is, "none" when there is none
  stop_pc,           \* where the thread calling Manager::stop is
  stop_overlap       \* a URC handler was running when the last stop began

stopVars == <<drv_running, rx_pc, stop_pc, stop_overlap>>

\* The frame codec applied to chosen frames: src/src/core/frame.h
VARIABLES
  cd_frame,          \* the frame last handed to Frame::encode
  cd_buf,            \* the buffer it filled, a sequence of bytes
  cd_flip,           \* the bit of that buffer inverted since, -1 when none
  cd_res             \* what Frame::decode returned for the buffer

codecVars == <<cd_frame, cd_buf, cd_flip, cd_res>>

\* The Direct transport and its serial line:
\* src/src/transport/direct_transport.cpp
VARIABLES
  d_running,         \* direct_transport_impl::running
  d_start_result,    \* what the last direct_start returned
  d_rx_buffer,       \* rx_buffer[0 .. rx_len)
  d_delivered,       \* the frames handed to recv_cb, in order
  d_line,            \* bytes that arrived at the serial port and are unread
  d_stream,          \* the bytes the peer is sending, <<>> before it begins
  d_pos              \* how many of them have arrived

directVars == <<d_running, d_start_result, d_rx_buffer, d_delivered, d_line,
                d_stream, d_pos>>

\* The AT driver with its mutexes and the modem's answers:
\* src/src/transport/tpmesh_at_driver.{h,cpp}
VARIABLES
  sync_mutex_,       \* TPMeshATDriver::sync_mutex_: its holder and lock depth
  urc_mutex_,        \* TPMeshATDriver::urc_mutex_: its holder
  lk_state,          \* state_
  lk_response_ok,    \* response_ok_
  lk_response_buffer, \* response_buffer_
  lk_pc,             \* per thread: where it is in sendCommand / processLine
  lk_cmd,            \* per thread: the number of the command it last wrote
  lk_ret,            \* per thread: what its last sendCommand returned
  lk_issued,         \* number of commands written to the modem so far
  lk_answered,       \* number of them the modem has answered
  lk_lines,          \* lines the modem has sent that are not read yet
  lk_sent,           \* number of lines the modem has sent so far
  lk_ender           \* the line that last set state_ back to IDLE

lockVars == <<sync_mutex_, urc_mutex_, lk_state, lk_response_ok,
              lk_response_buffer, lk_pc, lk_cmd, lk_ret, lk_issued,
              lk_answered, lk_lines, lk_sent, lk_ender>>

\* Manager::check_node_timeout: src/src/core/manager.cpp
VARIABLES
  sweep_calls        \* the calls of the user's node callback the most recent
                     \* check_node_timeout made

sweepVars == <<sweep_calls>>

\* The receive queue of the mesh transport and the dispatch of its frames:
\* src/src/transport/tpmesh_transport.cpp, src/src/core/manager.cpp
VARIABLES
  rx_queue_,         \* TPMeshTransport::rx_queue_, each frame with its number
                     \* of arrival
  q_arrived,         \* the number of frames that have arrived
  q_pc,              \* where the receiver task is
  q_cur,             \* the frame the receiver task took off the queue
  q_log              \* the steps of dispatch taken so far, oldest first

queueVars == <<rx_queue_, q_arrived, q_pc, q_cur, q_log>>

\* the variables of the parts modelled at the level of single threads
moreVars == <<raceVars, stopVars, codecVars, directVars, lockVars, sweepVars,
              queueVars>>

\* all of them but one group
exceptRace ==
  <<stopVars, codecVars, directVars, lockVars, sweepVars, queueVars>>
exceptStop ==
  <<raceVars, codecVars, directVars, lockVars, sweepVars, queueVars>>
exceptCodec ==
  <<raceVars, stopVars, directVars, lockVars, sweepVars, queueVars>>
exceptDirect ==
  <<raceVars, stopVars, codecVars, lockVars, sweepVars, queueVars>>
exceptLock ==
  <<raceVars, stopVars, codecVars, directVars, sweepVars, queueVars>>
exceptSweep ==
  <<raceVars, stopVars, codecVars, directVars, lockVars, queueVars>>
exceptQueue ==
  <<raceVars, stopVars, codecVars, directVars, lockVars, sweepVars>>

vars == <<atVars, mgrVars, ntVars, outVars, moreVars>>

\* enum class State
IDLE == "IDLE"
WAITING_RESPONSE == "WAITING_RESPONSE"

\* application threads that may call sendCommand
Callers == {"app1", "app2"}
NoCaller == "none"

\* lines the modem can send; a line is the sequence of its characters
LINE_OK == <<"O", "K">>
LINE_ERROR == <<"E", "R", "R", "O", "R">>
LINE_NNMI == <<"+", "N", "N", "M", "I", ":", "F", "F", "B", "E", ",", "F", "F", "F", "E", ",", "-", "7", "2", ",", "4", ",", "C", "A", "F", "E", "B", "A", "B", "E">>
LINE_SEND_OK == <<"+", "S", "E", "N", "D", ":", "1", "0", ",", "S", "E", "N", "D", " ", "O", "K">>
LINE_ROOT == <<"R", "O", "O", "T", "[", "1", "]">>
LINE_READY == <<"+", "R", "E", "A", "D", "Y">>

ModemLines == {LINE_OK, LINE_ERROR, LINE_NNMI, LINE_ROOT, LINE_READY}

\* commands the application threads send
CMD_AT == "AT"
CMD_ADDR == "AT+ADDR=FFBE"
Commands == {CMD_AT, CMD_ADDR}

\* std::string::find(needle) != npos
RECURSIVE FindFrom(_, _, _)
FindFrom(line, needle, i) ==
  IF i + Len(needle) - 1 > Len(line) THEN FALSE
  ELSE IF SubSeq(line, i, i + Len(needle) - 1) = needle THEN TRUE
  ELSE FindFrom(line, needle, i + 1)

Contains(line, needle) == FindFrom(line, needle, 1)

\* line[0] == '+'
StartsWithPlus(line) == Len(line) > 0 /\ line[1] = "+"

\* the value a thread holds before it has called sendCommand
NoReturn == [via |-> "none", ok |-> FALSE, lines |-> <<>>, term |-> <<>>]

\* std::string::rfind(prefix, 0) == 0
StartsWith(line, prefix) ==
  Len(line) >= Len(prefix) /\ SubSeq(line, 1, Len(prefix)) = prefix

\* TPMeshATDriver::identifyURC (the forms the modem lines above can take)
identifyURC(line) ==
  IF StartsWith(line, <<"+", "N", "N", "M", "I", ":">>) THEN "NNMI"
  ELSE IF StartsWith(line, <<"+", "S", "E", "N", "D", ":">>) THEN "SEND"
  ELSE IF StartsWith(line, <<"+", "R", "O", "U", "T", "E", ":">>) THEN "ROUTE"
  ELSE IF StartsWith(line, <<"+", "A", "C", "K", ":">>) THEN "ACK"
  ELSE IF StartsWith(line, <<"+", "F", "L", "O", "O", "D", ":">>) THEN "FLOOD"
  ELSE IF StartsWith(line, <<"+", "B", "O", "O", "T">>) THEN "BOOT"
  ELSE IF StartsWith(line, <<"+", "R", "E", "A", "D", "Y">>) THEN "READY"
  ELSE IF StartsWith(line, <<"+", "S", "U", "S", "P", "E", "N", "D">>) THEN "SUSPEND"
  ELSE IF StartsWith(line, <<"+", "R", "E", "S", "U", "M", "E">>) THEN "RESUME"
  ELSE "UNKNOWN"

(***************************************************************************)
(* NodeTable: src/src/core/node_table.h                                    *)
(***************************************************************************)
\* node addresses used as inputs (edge range 0xFFBE..0xFFFD)
EDGE1 == 65470
EDGE2 == 65471
EDGE3 == 65472
NodeAddrs == {EDGE1, EDGE2, EDGE3}

\* signal strengths used as inputs
RssiValues == {-72}

\* timeouts used as inputs, in ticks of the millisecond clock
Timeouts == {1, 2}

\* the value last_op holds before any operation
NoOp == [op |-> "none", addr |-> 0, t |-> 0, cb |-> FALSE, fired |-> <<>>,
         is_new |-> FALSE]

\* index of the entry with this address, 0 if there is none
\* (the for loop at the head of update)
FindEntry(entries, addr) ==
  IF \E i \in DOMAIN entries : entries[i].addr = addr
    THEN CHOOSE i \in DOMAIN entries :
           /\ entries[i].addr = addr
           /\ \A j \in DOMAIN entries : entries[j].addr = addr => i <= j
    ELSE 0

\* the largest value of the clock and of last_seen (uint32_t in the program)
UINT32_MAX == MaxTime

\* uint32_t subtraction now - last_seen
elapsed(t, last_seen) == (t - last_seen + UINT32_MAX + 1) % (UINT32_MAX + 1)

\* the index update picks for replacement when the table is full: the loop
\* starts from oldest_time = UINT32_MAX and takes an offline entry whose
\* last_seen is below oldest_time, so it ends with the first offline entry
\* with the smallest last_seen below UINT32_MAX; 0 if there is none.
OldestOffline(entries) ==
  IF \E i \in DOMAIN entries :
       ~entries[i].online /\ entries[i].last_seen < UINT32_MAX
    THEN CHOOSE i \in DOMAIN entries :
           /\ ~entries[i].online
           /\ entries[i].last_seen < UINT32_MAX
           /\ \A j \in DOMAIN entries :
                ~entries[j].online =>
                  \/ entries[j].last_seen > entries[i].last_seen
                  \/ (entries[j].last_seen = entries[i].last_seen /\ i <= j)
    ELSE 0

\* update without the search for an entry of the address
update_without_lookup(entries, addr, rssi, t) ==
  LET fresh == [addr |-> addr, last_seen |-> t, rssi |-> rssi, online |-> TRUE,
                object_count |-> 0]
  IN IF Len(entries) >= MaxNodes
       THEN LET oldest_offline == OldestOffline(entries)
            IN IF oldest_offline > 0
                 THEN [entries |-> [entries EXCEPT ![oldest_offline] = fresh],
                       result |-> TRUE]
                 ELSE [entries |-> entries, result |-> FALSE]
     ELSE [entries |-> Append(entries, fresh), result |-> TRUE]

\* update replacing the first entry of a full table that has no offline
\* entry
update_evicts_online(entries, addr, rssi, t) ==
  LET idx == FindEntry(entries, addr)
      fresh == [addr |-> addr, last_seen |-> t, rssi |-> rssi, online |-> TRUE,
                object_count |-> 0]
  IN IF idx > 0
       THEN [entries |-> [entries EXCEPT ![idx].last_seen = t,
                                         ![idx].rssi = rssi,
                                         ![idx].online = TRUE],
             result |-> ~entries[idx].online]
     ELSE IF Len(entries) >= MaxNodes
       THEN LET oldest_offline == OldestOffline(entries)
            IN IF oldest_offline > 0
                 THEN [entries |-> [entries EXCEPT ![oldest_offline] = fresh],
                       result |-> TRUE]
                 ELSE [entries |-> [entries EXCEPT ![1] = fresh],
                       result |-> TRUE]
     ELSE [entries |-> Append(entries, fresh), result |-> TRUE]

\* update reporting every entry it refreshes as newly online
update_signals_existing(entries, addr, rssi, t) ==
  LET idx == FindEntry(entries, addr)
      fresh == [addr |-> addr, last_seen |-> t, rssi |-> rssi, online |-> TRUE,
                object_count |-> 0]
  IN IF idx > 0
       THEN [entries |-> [entries EXCEPT ![idx].last_seen = t,
                                         ![idx].rssi = rssi,
                                         ![idx].online = TRUE],
             result |-> TRUE]
     ELSE IF Len(entries) >= MaxNodes
       THEN LET oldest_offline == OldestOffline(entries)
            IN IF oldest_offline > 0
                 THEN [entries |-> [entries EXCEPT ![oldest_offline] = fresh],
                       result |-> TRUE]
                 ELSE [entries |-> entries, result |-> FALSE]
     ELSE [entries |-> Append(entries, fresh), result |-> TRUE]

\* NodeTable::update: the table after the call and the value returned
update(entries, addr, rssi, t) ==
  LET idx == FindEntry(entries, addr)
      fresh == [addr |-> addr, last_seen |-> t, rssi |-> rssi, online |-> TRUE,
                object_count |-> 0]
  IN IF idx > 0
       THEN [entries |-> [entries EXCEPT ![idx].last_seen = t,
                                         ![idx].rssi = rssi,
                                         ![idx].online = TRUE],
             result |-> ~entries[idx].online]
     ELSE IF Len(entries) >= MaxNodes
       THEN LET oldest_offline == OldestOffline(entries)
            IN IF oldest_offline > 0
                 THEN [entries |-> [entries EXCEPT ![oldest_offline] = fresh],
                       result |-> TRUE]
                 ELSE [entries |-> entries, result |-> FALSE]
     ELSE [entries |-> Append(entries, fresh), result |-> TRUE]

\* the test check_timeout applies to an online entry, with >= in place of >
is_timed_out_ge(t, last_seen, timeout_ms) ==
  elapsed(t, last_seen) >= timeout_ms

\* the test check_timeout applies to an online entry:
\* now - entries_[i].last_seen > timeout_ms
is_timed_out(t, last_seen, timeout_ms) ==
  elapsed(t, last_seen) > timeout_ms

\* NodeTable::check_timeout: the table after the call
check_timeout(entries, t, timeout_ms) ==
  [i \in DOMAIN entries |->
     IF entries[i].online /\ is_timed_out(t, entries[i].last_seen, timeout_ms)
       THEN [entries[i] EXCEPT !.online = FALSE]
       ELSE entries[i]]

\* NodeTable::check_timeout: the addresses the callback is invoked with, in
\* the order of the calls
RECURSIVE timed_out_addrs(_, _, _, _)
timed_out_addrs(entries, t, timeout_ms, i) ==
  IF i > Len(entries) THEN <<>>
  ELSE (IF entries[i].online /\ is_timed_out(t, entries[i].last_seen, timeout_ms)
          THEN <<entries[i].addr>> ELSE <<>>)
       \o timed_out_addrs(entries, t, timeout_ms, i + 1)

\* the elements of a sequence
Range(s) == {s[i] : i \in DOMAIN s}

\* NodeTable() : count_(0)
InitNtVars ==
  /\ entries_ = <<>>
  /\ now = 0
  /\ last_op = NoOp
  /\ fires_since_update = [a \in NodeAddrs |-> 0]
  /\ recent = <<>>

\* a call of update(addr, rssi) on the table, with its bookkeeping
DoUpdate(addr, rssi) ==
  LET r == update(entries_, addr, rssi, now)
  IN /\ entries_' = r.entries
     /\ last_op' = [op |-> "update", addr |-> addr, t |-> 0, cb |-> FALSE,
                    fired |-> <<>>, is_new |-> r.result]
     /\ fires_since_update' =
          IF \E i \in DOMAIN r.entries :
               r.entries[i].addr = addr /\ r.entries[i].last_seen = now
                 /\ r.entries[i].online
            THEN [fires_since_update EXCEPT ![addr] = 0]
            ELSE fires_since_update
     /\ recent' =
          IF \E i \in DOMAIN r.entries :
               r.entries[i].addr = addr /\ r.entries[i].last_seen = now
                 /\ r.entries[i].online
            THEN Append(SelectSeq(recent,
                                  LAMBDA a : a # addr /\
                                    \E i \in DOMAIN r.entries :
                                      r.entries[i].addr = a),
                        addr)
            ELSE recent

\* a call of check_timeout(timeout_ms, callback) on the table, with its
\* bookkeeping; has_cb tells whether callback is non-null
DoCheckTimeout(timeout_ms, has_cb) ==
  LET fired == IF has_cb THEN timed_out_addrs(entries_, now, timeout_ms, 1)
               ELSE <<>>
  IN /\ entries_' = check_timeout(entries_, now, timeout_ms)
     /\ last_op' = [op |-> "check_timeout", addr |-> 0, t |-> timeout_ms,
                    cb |-> has_cb, fired |-> fired, is_new |-> FALSE]
     /\ fires_since_update' =
          [a \in NodeAddrs |->
             fires_since_update[a]
               + Cardinality({i \in DOMAIN fired : fired[i] = a})]
     /\ UNCHANGED recent

\* application calls update
NT_update(addr, rssi) ==
  /\ DoUpdate(addr, rssi)
  /\ UNCHANGED now
  /\ UNCHANGED <<atVars, mgrVars, outVars, moreVars>>

\* application calls check_timeout
NT_check_timeout(timeout_ms, has_cb) ==
  /\ DoCheckTimeout(timeout_ms, has_cb)
  /\ UNCHANGED now
  /\ UNCHANGED <<atVars, mgrVars, outVars, moreVars>>

\* NodeTable::remove: the entries after the first one with this address move
\* down by one and count_ is decremented; nothing happens when there is none
remove(entries, addr) ==
  LET idx == FindEntry(entries, addr)
  IN IF idx = 0 THEN entries
     ELSE SubSeq(entries, 1, idx - 1) \o SubSeq(entries, idx + 1, Len(entries))

\* NodeTable::clear: count_ = 0
clear(entries) == <<>>

\* application calls remove
NT_remove(addr) ==
  /\ entries_' = remove(entries_, addr)
  /\ last_op' = [op |-> "remove", addr |-> addr, t |-> 0, cb |-> FALSE,
                 fired |-> <<>>, is_new |-> FALSE]
  /\ recent' = SelectSeq(recent, LAMBDA a : a # addr)
  /\ UNCHANGED <<now, fires_since_update>>
  /\ UNCHANGED <<atVars, mgrVars, outVars, moreVars>>

\* application calls clear
NT_clear ==
  /\ entries_' = clear(entries_)
  /\ last_op' = [op |-> "clear", addr |-> 0, t |-> 0, cb |-> FALSE,
                 fired |-> <<>>, is_new |-> FALSE]
  /\ recent' = <<>>
  /\ UNCHANGED <<now, fires_since_update>>
  /\ UNCHANGED <<atVars, mgrVars, outVars, moreVars>>

\* hal_get_timestamp_ms advances by one tick; after UINT32_MAX it is 0 again
Tick ==
  /\ now' = (now + 1) % (UINT32_MAX + 1)
  /\ UNCHANGED <<entries_, last_op, fires_since_update, recent>>
  /\ UNCHANGED <<atVars, mgrVars, outVars, moreVars>>

(***************************************************************************)
(* Frames and messages: include/xslot/xslot_types.h,                       *)
(* src/src/core/message_builder.{h,cpp}                                    *)
(***************************************************************************)
\* xslot_cmd_t
XSLOT_CMD_PING == 1
XSLOT_CMD_PONG == 2
XSLOT_CMD_REPORT == 16
XSLOT_CMD_QUERY == 17
XSLOT_CMD_RESPONSE == 18
XSLOT_CMD_WRITE == 32
XSLOT_CMD_WRITE_ACK == 33

\* xslot_object_type_t
XSLOT_OBJ_ANALOG_INPUT == 0
XSLOT_OBJ_ANALOG_OUTPUT == 1
XSLOT_OBJ_ANALOG_VALUE == 2
XSLOT_OBJ_BINARY_INPUT == 3
XSLOT_OBJ_BINARY_OUTPUT == 4
XSLOT_OBJ_BINARY_VALUE == 5

\* addresses
XSLOT_ADDR_BROADCAST == 0
XSLOT_ADDR_HUB == 65534

\* xslot_error_t
XSLOT_OK == 0

\* config_.local_addr of the modelled Manager: it runs on the hub
local_addr == XSLOT_ADDR_HUB

\* the objects[16] array handle_frame parses a report into
ReportCapacity == 16

\* BacnetSerializer::is_analog_type
is_analog_type(obj_type) ==
  \/ obj_type = XSLOT_OBJ_ANALOG_INPUT
  \/ obj_type = XSLOT_OBJ_ANALOG_OUTPUT
  \/ obj_type = XSLOT_OBJ_ANALOG_VALUE

\* BacnetSerializer::is_binary_type
is_binary_type(obj_type) ==
  \/ obj_type = XSLOT_OBJ_BINARY_INPUT
  \/ obj_type = XSLOT_OBJ_BINARY_OUTPUT
  \/ obj_type = XSLOT_OBJ_BINARY_VALUE

\* BacnetSerializer::get_value_size
get_value_size(obj_type) ==
  IF is_analog_type(obj_type) THEN 4
  ELSE IF is_binary_type(obj_type) THEN 1
  ELSE 16

\* BacnetSerializer::is_incremental_format: (type_hint & 0x80) != 0
is_incremental_format(type_hint) == (type_hint \div 128) % 2 = 1

\* infer_object_type
infer_object_type(type_hint) ==
  LET value_type == type_hint % 16
  IN IF value_type = 0 THEN XSLOT_OBJ_ANALOG_INPUT
     ELSE IF value_type = 1 THEN XSLOT_OBJ_BINARY_INPUT
     ELSE XSLOT_OBJ_ANALOG_VALUE

\* a failed read
ReadError == [ok |-> FALSE]

\* BufferReader::read<uint16_t>: little-endian, at byte offset off
read_u16(buf, off) == buf[off + 1] + 256 * buf[off + 2]

\* one object in the full format, read at byte offset off: OBJ_ID(2),
\* OBJ_TYPE(1), FLAGS(1), VALUE(4 / 1 / 16).  The value is kept as the bytes
\* read.  (the body of BacnetSerializer::deserialize and of the loop of
\* deserialize_batch)
read_object(buf, off) ==
  IF off + 2 > Len(buf) THEN ReadError
  ELSE IF off + 3 > Len(buf) THEN ReadError
  ELSE IF off + 4 > Len(buf) THEN ReadError
  ELSE LET obj_type == buf[off + 3]
           size == get_value_size(obj_type)
       IN IF off + 4 + size > Len(buf) THEN ReadError
          ELSE [ok |-> TRUE,
                obj |-> [object_id |-> read_u16(buf, off),
                         object_type |-> obj_type,
                         flags |-> buf[off + 4],
                         present_value |-> SubSeq(buf, off + 5, off + 4 + size)],
                offset |-> off + 4 + size]

\* one object in the incremental format, read at byte offset off: OBJ_ID(2),
\* TYPE_HINT(1), VALUE  (the loop body of deserialize_incremental_batch)
read_incremental_object(buf, off) ==
  IF off + 2 > Len(buf) THEN ReadError
  ELSE IF off + 3 > Len(buf) THEN ReadError
  ELSE LET type_hint == buf[off + 3]
           value_type == type_hint % 16
           size == IF value_type = 0 THEN 4 ELSE IF value_type = 1 THEN 1 ELSE 16
       IN IF off + 3 + size > Len(buf) THEN ReadError
          ELSE [ok |-> TRUE,
                obj |-> [object_id |-> read_u16(buf, off),
                         object_type |-> infer_object_type(type_hint),
                         flags |-> 0,
                         present_value |-> SubSeq(buf, off + 4, off + 3 + size)],
                offset |-> off + 3 + size]

\* BacnetSerializer::deserialize
deserialize(buf) == read_object(buf, 0)

\* the for loop of deserialize_batch / deserialize_incremental_batch: n
\* objects still to read from byte offset off
RECURSIVE read_objects(_, _, _, _)
read_objects(buf, off, n, incremental) ==
  IF n = 0 THEN [ok |-> TRUE, objects |-> <<>>]
  ELSE LET r == IF incremental THEN read_incremental_object(buf, off)
                ELSE read_object(buf, off)
       IN IF ~r.ok THEN [ok |-> FALSE, objects |-> <<>>]
          ELSE LET rest == read_objects(buf, r.offset, n - 1, incremental)
               IN IF ~rest.ok THEN rest
                  ELSE [ok |-> TRUE, objects |-> <<r.obj>> \o rest.objects]

\* BacnetSerializer::deserialize_batch
deserialize_batch(buf, capacity) ==
  IF Len(buf) = 0 \/ capacity = 0 THEN [ok |-> FALSE, objects |-> <<>>]
  ELSE LET count == IF buf[1] > capacity THEN capacity ELSE buf[1]
       IN read_objects(buf, 1, count, FALSE)

\* BacnetSerializer::deserialize_incremental_batch
deserialize_incremental_batch(buf, capacity) ==
  IF Len(buf) = 0 \/ capacity = 0 THEN [ok |-> FALSE, objects |-> <<>>]
  ELSE LET count == IF buf[1] > capacity THEN capacity ELSE buf[1]
       IN read_objects(buf, 1, count, TRUE)

\* message::parse_report
parse_report(frame, capacity) ==
  IF frame.cmd # XSLOT_CMD_REPORT THEN [ok |-> FALSE, objects |-> <<>>]
  ELSE IF Len(frame.data) < 1 THEN [ok |-> FALSE, objects |-> <<>>]
  ELSE IF Len(frame.data) >= 4 /\ is_incremental_format(frame.data[4])
    THEN deserialize_incremental_batch(frame.data, capacity)
  ELSE deserialize_batch(frame.data, capacity)

\* message::parse_write
parse_write(frame) ==
  IF frame.cmd # XSLOT_CMD_WRITE THEN ReadError
  ELSE deserialize(frame.data)

\* a Pong that carries the sequence number of nothing in particular
build_pong_fixed_seq(from, to, seq) ==
  [from |-> from, to |-> to, seq |-> 0, cmd |-> XSLOT_CMD_PONG, data |-> <<>>]

\* message::build_pong
build_pong(from, to, seq) ==
  [from |-> from, to |-> to, seq |-> seq, cmd |-> XSLOT_CMD_PONG, data |-> <<>>]

\* a WriteAck built before its result byte is written
build_write_ack_empty(from, to, seq, result) ==
  [from |-> from, to |-> to, seq |-> seq, cmd |-> XSLOT_CMD_WRITE_ACK,
   data |-> <<>>]

\* message::build_write_ack
build_write_ack(from, to, seq, result) ==
  [from |-> from, to |-> to, seq |-> seq, cmd |-> XSLOT_CMD_WRITE_ACK,
   data |-> <<result>>]

\* frame_const::MAX_DATA_LEN
MAX_DATA_LEN == 128

\* a builder or serializer that failed with error e
BuildError(e) == [ok |-> FALSE, error |-> e]

\* BufferWriter::write<uint16_t>: little-endian
write_u16(v) == <<v % 256, v \div 256>>

\* the bytes of present_value a serializer writes for an object of this type:
\* the float, the binary byte or the 16 raw bytes
value_bytes(obj) ==
  SubSeq(obj.present_value, 1, get_value_size(obj.object_type))

\* get_type_hint: INCREMENTAL_FLAG | value class
get_type_hint(obj_type) ==
  128 + (IF is_analog_type(obj_type) THEN 0
         ELSE IF is_binary_type(obj_type) THEN 1
         ELSE 2)

\* the bytes one object takes in the full format
full_object_bytes(obj) ==
  write_u16(obj.object_id) \o <<obj.object_type, obj.flags>> \o value_bytes(obj)

\* the bytes one object takes in the incremental format
incremental_object_bytes(obj) ==
  write_u16(obj.object_id) \o <<get_type_hint(obj.object_type)>>
    \o value_bytes(obj)

\* BacnetSerializer::serialize: every write is checked against the buffer, so
\* the call fails exactly when the object does not fit
serialize(obj, capacity) ==
  LET bytes == full_object_bytes(obj)
  IN IF Len(bytes) > capacity THEN BuildError("NoMemory")
     ELSE [ok |-> TRUE, bytes |-> bytes]

\* the for loop of serialize_batch / serialize_incremental_batch
RECURSIVE write_objects(_, _)
write_objects(objects, incremental) ==
  IF objects = <<>> THEN <<>>
  ELSE (IF incremental THEN incremental_object_bytes(Head(objects))
        ELSE full_object_bytes(Head(objects)))
       \o write_objects(Tail(objects), incremental)

\* BacnetSerializer::serialize_batch
serialize_batch(objects, capacity) ==
  IF objects = <<>> THEN BuildError("InvalidParam")
  ELSE LET bytes == <<Len(objects) % 256>> \o write_objects(objects, FALSE)
       IN IF Len(bytes) > capacity THEN BuildError("NoMemory")
          ELSE [ok |-> TRUE, bytes |-> bytes]

\* BacnetSerializer::serialize_incremental_batch
serialize_incremental_batch(objects, capacity) ==
  IF objects = <<>> THEN BuildError("InvalidParam")
  ELSE LET bytes == <<Len(objects) % 256>> \o write_objects(objects, TRUE)
       IN IF Len(bytes) > capacity THEN BuildError("NoMemory")
          ELSE [ok |-> TRUE, bytes |-> bytes]

\* message::build_ping
build_ping(from, to, seq) ==
  [from |-> from, to |-> to, seq |-> seq, cmd |-> XSLOT_CMD_PING, data |-> <<>>]

\* the for loop of build_query: the object ids, little-endian
RECURSIVE write_ids(_)
write_ids(object_ids) ==
  IF object_ids = <<>> THEN <<>>
  ELSE write_u16(Head(object_ids)) \o write_ids(Tail(object_ids))

\* message::build_query
build_query(from, to, seq, object_ids) ==
  IF object_ids = <<>> THEN BuildError("InvalidParam")
  ELSE IF 1 + Len(object_ids) * 2 > MAX_DATA_LEN THEN BuildError("NoMemory")
  ELSE [ok |-> TRUE,
        frame |-> [from |-> from, to |-> to, seq |-> seq,
                   cmd |-> XSLOT_CMD_QUERY,
                   data |-> <<Len(object_ids) % 256>> \o write_ids(object_ids)]]

\* message::build_write
build_write(from, to, seq, obj) ==
  LET result == serialize(obj, MAX_DATA_LEN)
  IN IF ~result.ok THEN BuildError(result.error)
     ELSE [ok |-> TRUE,
           frame |-> [from |-> from, to |-> to, seq |-> seq,
                      cmd |-> XSLOT_CMD_WRITE, data |-> result.bytes]]

\* message::build_report
build_report(from, to, seq, objects, incremental) ==
  IF objects = <<>> THEN BuildError("InvalidParam")
  ELSE LET result == IF incremental
                       THEN serialize_incremental_batch(objects, MAX_DATA_LEN)
                       ELSE serialize_batch(objects, MAX_DATA_LEN)
       IN IF ~result.ok THEN BuildError(result.error)
          ELSE [ok |-> TRUE,
                frame |-> [from |-> from, to |-> to, seq |-> seq,
                           cmd |-> XSLOT_CMD_REPORT, data |-> result.bytes]]

(***************************************************************************)
(* Manager: src/src/core/manager.{h,cpp}                                   *)
(***************************************************************************)
\* what transport_ can hold
NO_TRANSPORT == "nullptr"
NULL_TRANSPORT == "Null"
DIRECT_TRANSPORT == "Direct"
TPMESH_TRANSPORT == "TPMesh"

\* the callbacks an application can register
CallbackNames == {"data", "node", "write", "report"}

\* frames a started transport can hand to on_frame_received
\* (sender, sequence number) pairs and destinations
RxOrigins == {[from |-> EDGE1, seq |-> 42], [from |-> EDGE2, seq |-> 200]}
RxTargets == {local_addr, XSLOT_ADDR_BROADCAST, EDGE3}
\* Write payloads: BO#3 = 1; AO#7 = 23.5 with the changed flag; a truncated one
WRITE_BO3 == <<3, 0, 4, 0, 1>>
WRITE_AO7 == <<7, 0, 1, 1, 0, 0, 188, 65>>
WRITE_TRUNCATED == <<3, 0, 4>>
\* Report payloads: one binary object in the full format; two analog objects
\* in the incremental format; a count with no object behind it
REPORT_FULL == <<1, 3, 0, 4, 0, 1>>
REPORT_INCREMENTAL == <<2, 7, 0, 128, 0, 0, 188, 65, 8, 0, 128, 0, 0, 192, 65>>
REPORT_TRUNCATED == <<1>>
\* Query payload: one object id
QUERY_IDS == <<1, 7, 0>>
RxBodies ==
  {[cmd |-> XSLOT_CMD_PING, data |-> <<>>],
   [cmd |-> XSLOT_CMD_PONG, data |-> <<>>],
   [cmd |-> XSLOT_CMD_REPORT, data |-> REPORT_FULL],
   [cmd |-> XSLOT_CMD_REPORT, data |-> REPORT_INCREMENTAL],
   [cmd |-> XSLOT_CMD_REPORT, data |-> REPORT_TRUNCATED],
   [cmd |-> XSLOT_CMD_QUERY, data |-> QUERY_IDS],
   [cmd |-> XSLOT_CMD_RESPONSE, data |-> REPORT_FULL],
   [cmd |-> XSLOT_CMD_WRITE, data |-> WRITE_BO3],
   [cmd |-> XSLOT_CMD_WRITE, data |-> WRITE_AO7],
   [cmd |-> XSLOT_CMD_WRITE, data |-> WRITE_TRUNCATED],
   [cmd |-> XSLOT_CMD_WRITE_ACK, data |-> <<0>>]}
RxFrames ==
  {[from |-> o.from, to |-> t, seq |-> o.seq, cmd |-> b.cmd, data |-> b.data] :
     o \in RxOrigins, t \in RxTargets, b \in RxBodies}

\* the frames the manager is run on by itself: every frame of the first
\* sender, and the second sender's Ping to this node
MgrFrames ==
  {f \in RxFrames :
     f.from = EDGE1 \/ (f.to = local_addr /\ f.cmd = XSLOT_CMD_PING)}

\* the values the ghost variables hold before the first call
NoStart == [op |-> "none", probed |-> FALSE, mesh |-> FALSE, direct |-> FALSE,
            created |-> NO_TRANSPORT, result |-> "none", after_failed |-> FALSE,
            calls |-> <<>>]
NoFrame == [from |-> 0, to |-> 0, seq |-> 0, cmd |-> 0, data |-> <<>>]
NoDispatch == [frame |-> NoFrame, dispatched |-> FALSE, callbacks |-> {},
               events |-> <<>>]

\* a start that probed, found neither a mesh modem nor a direct link and
\* created the Null transport
NoDeviceFound(s) ==
  s.op = "start" /\ s.probed /\ ~s.mesh /\ ~s.direct
    /\ s.created = NULL_TRANSPORT

\* Manager(config): running_(false), mode_(None), seq_(0), no transport, no
\* callback
InitMgrVars ==
  /\ running_ = FALSE
  /\ mode_ = "None"
  /\ transport_ = NO_TRANSPORT
  /\ seq_ = 0
  /\ callbacks = {}
  /\ last_start = NoStart
  /\ dispatch = NoDispatch

\* Manager::detect_and_create_transport: the transport returned and the mode
\* set.  mesh_probe / direct_probe: the factory returned a transport and its
\* probe() succeeded; null_created: create_null_transport returned an object.
detect_and_create_transport(mesh_probe, direct_probe, null_created) ==
  IF mesh_probe THEN [transport |-> TPMESH_TRANSPORT, mode |-> "Wireless"]
  ELSE IF direct_probe THEN [transport |-> DIRECT_TRANSPORT, mode |-> "Hmi"]
  ELSE [transport |-> IF null_created THEN NULL_TRANSPORT ELSE NO_TRANSPORT,
        mode |-> "None"]

\* transport_->start(): null_start returns XSLOT_OK whatever happens; a
\* Direct or TPMesh transport returns start_result
transport_start(transport, start_result) ==
  IF transport = NULL_TRANSPORT THEN "Ok" ELSE start_result

\* the calls Manager::start makes on the transport it created, in order:
\* set_receive_callback, then start; there is no call of configure
start_calls(created) ==
  IF created = NO_TRANSPORT THEN <<>>
  ELSE <<"set_receive_callback", "start">>

\* Manager::start
start(mesh_probe, direct_probe, null_created, start_result) ==
  LET after == \/ NoDeviceFound(last_start)
               \/ (last_start.op = "start" /\ ~last_start.probed
                     /\ last_start.after_failed)
  IN
  /\ IF running_
       THEN /\ last_start' = [op |-> "start", probed |-> FALSE, mesh |-> FALSE,
                              direct |-> FALSE, created |-> NO_TRANSPORT,
                              result |-> "Ok",
                              after_failed |-> after, calls |-> <<>>]
            /\ UNCHANGED <<running_, mode_, transport_>>
       ELSE LET d == detect_and_create_transport(mesh_probe, direct_probe,
                                                 null_created)
                result == IF d.transport = NO_TRANSPORT THEN "NoDevice"
                          ELSE transport_start(d.transport, start_result)
            IN /\ last_start' = [op |-> "start", probed |-> TRUE,
                                 mesh |-> mesh_probe,
                                 direct |-> ~mesh_probe /\ direct_probe,
                                 created |-> d.transport,
                                 result |-> result, after_failed |-> after,
                                 calls |-> start_calls(d.transport)]
               /\ IF d.transport = NO_TRANSPORT
                    THEN /\ transport_' = NO_TRANSPORT
                         /\ mode_' = "None"
                         /\ UNCHANGED running_
                  ELSE IF result # "Ok"
                    THEN /\ transport_' = NO_TRANSPORT
                         /\ mode_' = "None"
                         /\ UNCHANGED running_
                  ELSE /\ transport_' = d.transport
                       /\ mode_' = d.mode
                       /\ running_' = TRUE
  /\ UNCHANGED <<seq_, callbacks, dispatch>>
  /\ UNCHANGED <<atVars, ntVars, outVars, moreVars>>

\* Manager::stop
stop ==
  /\ IF ~running_
       THEN UNCHANGED <<running_, transport_>>
       ELSE /\ running_' = FALSE
            /\ transport_' = NO_TRANSPORT
  /\ last_start' = NoStart
  /\ UNCHANGED <<mode_, seq_, callbacks, dispatch>>
  /\ UNCHANGED <<atVars, ntVars, outVars, moreVars>>

\* Manager::set_data_callback / set_node_callback / set_write_callback /
\* set_report_callback
set_callback(name) ==
  /\ callbacks' = callbacks \cup {name}
  /\ UNCHANGED <<running_, mode_, transport_, seq_, last_start, dispatch>>
  /\ UNCHANGED <<atVars, ntVars, outVars, moreVars>>

\* Manager::send_frame called from handle_frame, which discards its result:
\* the frame handed to transport_->send, if any
send_frame(frame) ==
  IF ~running_ \/ transport_ = NO_TRANSPORT THEN <<>>
  ELSE <<[ev |-> "send", frame |-> frame]>>

\* Manager::handle_frame: the callbacks invoked and the frames sent, in order.
\* is_new is what node_table_.update returned.
handle_frame(frame, is_new) ==
  (IF is_new /\ "node" \in callbacks
     THEN <<[ev |-> "node_cb", addr |-> frame.from, online |-> TRUE]>>
     ELSE <<>>)
  \o
  (IF frame.cmd = XSLOT_CMD_PING
     THEN send_frame(build_pong(local_addr, frame.from, frame.seq))
   ELSE IF frame.cmd = XSLOT_CMD_PONG
     THEN <<>>
   ELSE IF frame.cmd = XSLOT_CMD_REPORT
     THEN LET r == parse_report(frame, ReportCapacity)
          IN IF r.ok /\ Len(r.objects) > 0 /\ "report" \in callbacks
               THEN <<[ev |-> "report_cb", addr |-> frame.from,
                       objects |-> r.objects]>>
               ELSE <<>>
   ELSE IF frame.cmd = XSLOT_CMD_WRITE
     THEN LET r == parse_write(frame)
          IN (IF r.ok /\ "write" \in callbacks
                THEN <<[ev |-> "write_cb", addr |-> frame.from, obj |-> r.obj]>>
                ELSE <<>>)
             \o send_frame(build_write_ack(local_addr, frame.from, frame.seq,
                                           XSLOT_OK))
   ELSE IF frame.cmd = XSLOT_CMD_RESPONSE \/ frame.cmd = XSLOT_CMD_QUERY
     THEN IF "data" \in callbacks
            THEN <<[ev |-> "data_cb", addr |-> frame.from, data |-> frame.data]>>
            ELSE <<>>
   ELSE <<>>)

\* on_frame_received without the check of the destination address
on_frame_received_any_target(frame) ==
  /\ running_
  /\ transport_ \in {DIRECT_TRANSPORT, TPMESH_TRANSPORT}
  /\ IF FALSE
       THEN /\ dispatch' = [frame |-> frame, dispatched |-> FALSE,
                            callbacks |-> callbacks, events |-> <<>>]
            /\ UNCHANGED ntVars
       ELSE /\ DoUpdate(frame.from, 0)
            /\ dispatch' =
                 [frame |-> frame, dispatched |-> TRUE,
                  callbacks |-> callbacks,
                  events |-> handle_frame(frame,
                                          update(entries_, frame.from, 0,
                                                 now).result)]
            /\ UNCHANGED now
  /\ UNCHANGED <<running_, mode_, transport_, seq_, callbacks, last_start>>
  /\ UNCHANGED <<atVars, outVars, moreVars>>

\* Manager::on_frame_received: a started Direct or TPMesh transport hands a
\* well-formed frame to the receive callback
on_frame_received(frame) ==
  /\ running_
  /\ transport_ \in {DIRECT_TRANSPORT, TPMESH_TRANSPORT}
  /\ IF frame.to # local_addr /\ frame.to # XSLOT_ADDR_BROADCAST
       THEN /\ dispatch' = [frame |-> frame, dispatched |-> FALSE,
                            callbacks |-> callbacks, events |-> <<>>]
            /\ UNCHANGED ntVars
       ELSE /\ DoUpdate(frame.from, 0)
            /\ dispatch' =
                 [frame |-> frame, dispatched |-> TRUE,
                  callbacks |-> callbacks,
                  events |-> handle_frame(frame,
                                          update(entries_, frame.from, 0,
                                                 now).result)]
            /\ UNCHANGED now
  /\ UNCHANGED <<running_, mode_, transport_, seq_, callbacks, last_start>>
  /\ UNCHANGED <<atVars, outVars, moreVars>>

\* no call of the user's node callback was made yet
InitSweepVars == sweep_calls = <<>>

\* the lambda Manager::check_node_timeout hands to check_timeout: the calls
\* of the user's node callback it makes.  It captures nothing and discards
\* both arguments
timeout_lambda(addr, online) == <<>>

\* the calls made while check_timeout walks the entries it marks offline
RECURSIVE sweep_callbacks(_, _)
sweep_callbacks(fired, i) ==
  IF i > Len(fired) THEN <<>>
  ELSE timeout_lambda(fired[i], FALSE) \o sweep_callbacks(fired, i + 1)

\* Manager::check_node_timeout: sweeps the node table with a callback that
\* does nothing (the lambda cannot reach node_cb_)
check_node_timeout(timeout_ms) ==
  /\ DoCheckTimeout(timeout_ms, TRUE)
  /\ sweep_calls' =
       sweep_callbacks(timed_out_addrs(entries_, now, timeout_ms, 1), 1)
  /\ UNCHANGED now
  /\ UNCHANGED mgrVars
  /\ UNCHANGED <<atVars, outVars, exceptSweep>>

\* what last_call holds before the first outbound call
NoCall == [op |-> "none", took_seq |-> FALSE, seq_before |-> 0,
           transport |-> NO_TRANSPORT, result |-> "none", frame |-> NoFrame,
           on_wire |-> FALSE]

\* a sequence counter that is incremented before it is read
next_seq_preincrement ==
  [value |-> (seq_ + 1) % 256, after |-> (seq_ + 1) % 256]

\* Manager::next_seq: return seq_++ on a uint8_t.  value is what the call
\* returns, after is seq_ once it has returned.
next_seq ==
  [value |-> seq_, after |-> (seq_ + 1) % 256]

\* transport_->send through CTransportAdapter::send: null_send returns
\* XSLOT_ERR_NO_DEVICE; direct_send returns XSLOT_OK when hal_serial_write
\* wrote the whole frame and XSLOT_ERR_SEND_FAIL otherwise (send_result)
transport_send(transport, send_result) ==
  IF transport = NULL_TRANSPORT THEN "NoDevice" ELSE send_result

\* Manager::send_frame as report/write/query/ping use it: the result returned.
\* Frame::encode cannot fail, the buffer holds a frame of the maximum size.
send_frame_result(frame, send_result) ==
  IF ~running_ \/ transport_ = NO_TRANSPORT THEN "NotInitialized"
  ELSE transport_send(transport_, send_result)

\* an outbound call that returns before it evaluates next_seq()
rejected(op, error) ==
  /\ last_call' = [op |-> op, took_seq |-> FALSE, seq_before |-> seq_,
                   transport |-> transport_, result |-> error,
                   frame |-> NoFrame, on_wire |-> FALSE]
  /\ UNCHANGED seq_

\* the part report/write/query/ping share: next_seq() was evaluated as an
\* argument of the builder (built is the builder's result), a build error is
\* returned, a built frame goes to send_frame
outbound(op, built, send_result) ==
  /\ seq_' = next_seq.after
  /\ last_call' =
       [op |-> op, took_seq |-> TRUE, seq_before |-> seq_,
        transport |-> transport_,
        result |-> IF ~built.ok THEN built.error
                   ELSE send_frame_result(built.frame, send_result),
        frame |-> IF built.ok THEN built.frame ELSE NoFrame,
        on_wire |-> /\ built.ok
                    /\ running_
                    /\ transport_ \in {DIRECT_TRANSPORT, TPMESH_TRANSPORT}]

\* Manager::report
report(objects, send_result) ==
  /\ IF objects = <<>>
       THEN rejected("report", "InvalidParam")
       ELSE outbound("report",
                     build_report(local_addr, XSLOT_ADDR_HUB, next_seq.value,
                                  objects, TRUE),
                     send_result)
  /\ UNCHANGED <<running_, mode_, transport_, callbacks, last_start, dispatch>>
  /\ UNCHANGED <<tx_pc, tx_pending, tx_mutex, tx_state, wire, tx_calls>>
  /\ UNCHANGED <<atVars, ntVars, moreVars>>

\* Manager::write
write(target, obj, send_result) ==
  /\ outbound("write",
              build_write(local_addr, target, next_seq.value, obj),
              send_result)
  /\ UNCHANGED <<running_, mode_, transport_, callbacks, last_start, dispatch>>
  /\ UNCHANGED <<tx_pc, tx_pending, tx_mutex, tx_state, wire, tx_calls>>
  /\ UNCHANGED <<atVars, ntVars, moreVars>>

\* Manager::query
query(target, object_ids, send_result) ==
  /\ IF object_ids = <<>>
       THEN rejected("query", "InvalidParam")
       ELSE outbound("query",
                     build_query(local_addr, target, next_seq.value,
                                 object_ids),
                     send_result)
  /\ UNCHANGED <<running_, mode_, transport_, callbacks, last_start, dispatch>>
  /\ UNCHANGED <<tx_pc, tx_pending, tx_mutex, tx_state, wire, tx_calls>>
  /\ UNCHANGED <<atVars, ntVars, moreVars>>

\* Manager::ping
ping(target, send_result) ==
  /\ outbound("ping",
              [ok |-> TRUE,
               frame |-> build_ping(local_addr, target, next_seq.value)],
              send_result)
  /\ UNCHANGED <<running_, mode_, transport_, callbacks, last_start, dispatch>>
  /\ UNCHANGED <<tx_pc, tx_pending, tx_mutex, tx_state, wire, tx_calls>>
  /\ UNCHANGED <<atVars, ntVars, moreVars>>

(***************************************************************************)
(* AT driver actions                                                       *)
(***************************************************************************)
\* the driver after TPMeshTransport::open(): serial open, receiver thread
\* running, urc_callback_ installed, no command in flight
InitAtVars ==
  /\ state_ = IDLE
  /\ response_buffer_ = <<>>
  /\ response_ok_ = FALSE
  /\ pc = [c \in Callers |-> "idle"]
  /\ ret = [c \in Callers |-> NoReturn]
  /\ uart_tx = <<>>
  /\ rx_log = <<>>
  /\ urc_delivered = <<>>
  /\ inflight = {}
  /\ owner = NoCaller
  /\ last_terminal = <<>>
  /\ at_calls = 0

\* TPMeshATDriver::sendCommand, from the lock of sync_mutex_ up to the point
\* where wait_for releases it.  write_ok is the outcome of writeLine.
sendCommand(c, cmd, write_ok) ==
  /\ pc[c] = "idle"
  /\ at_calls < MaxCmds
  /\ at_calls' = at_calls + 1
  /\ IF state_ # IDLE
       THEN \* "AT driver is busy"
            /\ ret' = [ret EXCEPT ![c] = [via |-> "busy", ok |-> FALSE,
                                          lines |-> <<>>, term |-> <<>>]]
            /\ UNCHANGED <<state_, response_buffer_, response_ok_, pc, uart_tx,
                           inflight, owner, last_terminal>>
       ELSE IF ~write_ok
       THEN \* writeLine failed: state_ = IDLE, return false
            /\ state_' = IDLE
            /\ response_buffer_' = <<>>
            /\ response_ok_' = FALSE
            /\ last_terminal' = <<>>
            /\ ret' = [ret EXCEPT ![c] = [via |-> "write", ok |-> FALSE,
                                          lines |-> <<>>, term |-> <<>>]]
            /\ UNCHANGED <<pc, uart_tx, inflight, owner>>
       ELSE /\ state_' = WAITING_RESPONSE
            /\ response_buffer_' = <<>>
            /\ response_ok_' = FALSE
            /\ last_terminal' = <<>>
            /\ uart_tx' = Append(uart_tx, cmd)
            /\ pc' = [pc EXCEPT ![c] = "waiting"]
            /\ inflight' = inflight \cup {c}
            /\ owner' = c
            /\ UNCHANGED ret
  /\ UNCHANGED <<rx_log, urc_delivered>>
  /\ UNCHANGED <<mgrVars, ntVars, outVars, moreVars>>

\* TPMeshATDriver::sendCommand, from the return of sync_cv_.wait_for (the
\* thread holds sync_mutex_ again) to the return of sendCommand.  expired
\* tells whether timeout_ms has elapsed; wait_for returns the predicate
\* state_ == IDLE.
sendCommandWake(c, expired) ==
  /\ pc[c] = "waiting"
  /\ IF state_ = IDLE
       THEN \* got_response: response_lines = response_buffer_; return response_ok_
            /\ ret' = [ret EXCEPT ![c] = [via |-> "pred", ok |-> response_ok_,
                                          lines |-> response_buffer_,
                                          term |-> last_terminal]]
            /\ UNCHANGED state_
       ELSE \* "Command timeout": state_ = IDLE; return false
            /\ expired
            /\ state_' = IDLE
            /\ ret' = [ret EXCEPT ![c] = [via |-> "timeout", ok |-> FALSE,
                                          lines |-> <<>>, term |-> <<>>]]
  /\ pc' = [pc EXCEPT ![c] = "idle"]
  /\ inflight' = inflight \ {c}
  /\ UNCHANGED <<response_buffer_, response_ok_, uart_tx, rx_log, urc_delivered,
                 owner, last_terminal, at_calls>>
  /\ UNCHANGED <<mgrVars, ntVars, outVars, moreVars>>

\* processLine with a terminal ERROR line recorded as success
processLine_error_ok(line) ==
  /\ Len(line) > 0
  /\ Len(rx_log) < MaxLines
  /\ rx_log' = Append(rx_log, [line |-> line, st |-> state_])
  /\ IF state_ = WAITING_RESPONSE
       THEN IF Contains(line, <<"O", "K">>)
              THEN /\ response_ok_' = TRUE
                   /\ state_' = IDLE
                   /\ last_terminal' = line
                   /\ inflight' = inflight \ {owner}
                   /\ UNCHANGED <<response_buffer_, urc_delivered>>
            ELSE IF Contains(line, <<"E", "R", "R", "O", "R">>)
              THEN /\ response_ok_' = TRUE
                   /\ state_' = IDLE
                   /\ last_terminal' = line
                   /\ inflight' = inflight \ {owner}
                   /\ UNCHANGED <<response_buffer_, urc_delivered>>
            ELSE /\ response_buffer_' = Append(response_buffer_, line)
                 /\ UNCHANGED <<response_ok_, state_, last_terminal, inflight,
                                urc_delivered>>
       ELSE /\ IF StartsWithPlus(line)
                 THEN urc_delivered' =
                        Append(urc_delivered,
                               [type |-> identifyURC(line), raw_line |-> line])
                 ELSE UNCHANGED urc_delivered
            /\ UNCHANGED <<response_buffer_, response_ok_, state_, last_terminal,
                           inflight>>
  /\ UNCHANGED <<pc, ret, uart_tx, owner, at_calls>>
  /\ UNCHANGED <<mgrVars, ntVars, outVars, moreVars>>

\* TPMeshATDriver::rxThreadFunc reading one line and TPMeshATDriver::processLine
\* handling it under sync_mutex_
processLine(line) ==
  /\ Len(line) > 0
  /\ Len(rx_log) < MaxLines
  /\ rx_log' = Append(rx_log, [line |-> line, st |-> state_])
  /\ IF state_ = WAITING_RESPONSE
       THEN IF Contains(line, <<"O", "K">>)
              THEN /\ response_ok_' = TRUE
                   /\ state_' = IDLE
                   /\ last_terminal' = line
                   /\ inflight' = inflight \ {owner}
                   /\ UNCHANGED <<response_buffer_, urc_delivered>>
            ELSE IF Contains(line, <<"E", "R", "R", "O", "R">>)
              THEN /\ response_ok_' = FALSE
                   /\ state_' = IDLE
                   /\ last_terminal' = line
                   /\ inflight' = inflight \ {owner}
                   /\ UNCHANGED <<response_buffer_, urc_delivered>>
            ELSE /\ response_buffer_' = Append(response_buffer_, line)
                 /\ UNCHANGED <<response_ok_, state_, last_terminal, inflight,
                                urc_delivered>>
       ELSE /\ IF StartsWithPlus(line)
                 THEN urc_delivered' =
                        Append(urc_delivered,
                               [type |-> identifyURC(line), raw_line |-> line])
                 ELSE UNCHANGED urc_delivered
            /\ UNCHANGED <<response_buffer_, response_ok_, state_, last_terminal,
                           inflight>>
  /\ UNCHANGED <<pc, ret, uart_tx, owner, at_calls>>
  /\ UNCHANGED <<mgrVars, ntVars, outVars, moreVars>>

\* config.heartbeat_timeout_ms, in ticks of the clock
heartbeat_timeout_ms == 2

\* Ping and Pong frames addressed to the local node
HeartbeatFrames ==
  {f \in RxFrames :
     f.to = local_addr /\ f.cmd \in {XSLOT_CMD_PING, XSLOT_CMD_PONG}}

\* objects an application reports or writes: AO#7 = 23.5 with the changed
\* flag, BO#3 = 1, AV#8 = 24.0, and an object of a type outside the six
\* analog and binary ones, which carries 16 raw bytes
OBJ_AO7 == [object_id |-> 7, object_type |-> XSLOT_OBJ_ANALOG_OUTPUT,
            flags |-> 1, present_value |-> <<0, 0, 188, 65>>]
OBJ_BO3 == [object_id |-> 3, object_type |-> XSLOT_OBJ_BINARY_OUTPUT,
            flags |-> 0, present_value |-> <<1>>]
OBJ_AV8 == [object_id |-> 8, object_type |-> XSLOT_OBJ_ANALOG_VALUE,
            flags |-> 0, present_value |-> <<0, 0, 192, 65>>]
OBJ_RAW9 == [object_id |-> 9, object_type |-> 6, flags |-> 2,
             present_value |-> [i \in 1..16 |-> i]]

\* n binary inputs with object ids above 255
BinaryInputs(n) ==
  [i \in 1..n |-> [object_id |-> 256 + i,
                   object_type |-> XSLOT_OBJ_BINARY_INPUT,
                   flags |-> 0, present_value |-> <<i % 2>>]]

\* the batches handed to report: none, one analog object, a binary and an
\* analog one, a raw one, one object more than the hub's objects[16] holds
\* (69 bytes), and seven raw objects (134 bytes, more than a payload)
ReportBatches ==
  {<<>>, <<OBJ_AO7>>, <<OBJ_BO3, OBJ_AV8>>, <<OBJ_RAW9>>,
   BinaryInputs(ReportCapacity + 1), [i \in 1..7 |-> OBJ_RAW9]}

\* the object id lists handed to query: none, one id, and 64 ids (129 bytes)
QueryIds == {<<>>, <<7>>, [i \in 1..64 |-> i]}

\* the objects handed to write, the targets of write/query/ping and the
\* outcomes of a real transport's send
WriteObjects == {OBJ_AO7, OBJ_BO3}
OutTargets == {EDGE1}
SendResults == {"Ok", "SendFailed"}

\* Manager::report on edge node EDGE1 with seq_ = 42, up to the frame it
\* passes to send_frame: the Report frame the hub's transport then hands to
\* on_frame_received
peer_report(objects) ==
  build_report(EDGE1, XSLOT_ADDR_HUB, 42, objects, TRUE)

\* the Report frames of the batches that fit in a payload
PeerReportFrames ==
  {peer_report(objects).frame :
     objects \in {b \in ReportBatches : peer_report(b).ok}}

\* the threads that call Manager::send_frame: the application's and the
\* transport's receiver, which sends the automatic replies
SendThreads == {"app", "rx"}
NoThread == "none"

\* frame_const::HEADER_SIZE and CRC_SIZE
HEADER_SIZE == 8
CRC_SIZE == 2

\* Frame::total_size: the number of bytes Frame::encode produces
total_size(frame) == HEADER_SIZE + Len(frame.data) + CRC_SIZE

\* number of decimal digits of a frame length (at most 138)
decimal_digits(n) == IF n < 10 THEN 1 ELSE IF n < 100 THEN 2 ELSE 3

\* the number of bytes writeLine writes for the command sendData builds from
\* len frame bytes: "AT+SEND=", 4 hex digits of the address, ",", the length
\* in decimal, ",", two hex digits per byte, ",", the type digit, "\r\n"
at_send_line_length(len) ==
  8 + 4 + 1 + decimal_digits(len) + 1 + 2 * len + 1 + 1 + 2

\* the bytes one Transport::send call has to write, each tagged with the call
\* it belongs to, the calling thread and its position
tagged_bytes(call, thread, n) ==
  [i \in 1..n |-> [call |-> call, thread |-> thread, index |-> i, of |-> n]]

\* how many bytes the serial write of thread t can report as written: none,
\* one, or all of them
WriteCounts(t) == {0, 1, Len(tx_pending[t])}

\* the frames each thread sends: the application pings or writes, the
\* receiver thread answers with a Pong or a WriteAck
TxFrames(t) ==
  IF t = "app"
    THEN {build_ping(local_addr, EDGE1, 0),
          build_write(local_addr, EDGE1, 0, OBJ_BO3).frame}
    ELSE {build_pong(local_addr, EDGE1, 42),
          build_write_ack(local_addr, EDGE1, 42, XSLOT_OK)}

\* Manager::send_frame entered by thread t on a started Direct or TPMesh
\* transport, up to the call of the transport's send: the frame is encoded
\* into a buffer on the caller's stack, no lock is taken
tx_send_frame(t, frame) ==
  /\ tx_pc[t] = "idle"
  /\ tx_calls < MaxSends
  /\ running_
  /\ transport_ \in {DIRECT_TRANSPORT, TPMESH_TRANSPORT}
  /\ tx_calls' = tx_calls + 1
  /\ tx_pending' =
       [tx_pending EXCEPT ![t] =
          tagged_bytes(tx_calls + 1, t,
                       IF transport_ = DIRECT_TRANSPORT
                         THEN total_size(frame)
                         ELSE at_send_line_length(total_size(frame)))]
  /\ tx_pc' = [tx_pc EXCEPT ![t] = "send"]
  /\ UNCHANGED <<last_call, tx_mutex, tx_state, wire>>
  /\ UNCHANGED <<atVars, mgrVars, ntVars, moreVars>>

\* a send that hands the serial port one byte per call
direct_send_bytewise(t, written) ==
  /\ tx_pc[t] = "send"
  /\ transport_ = DIRECT_TRANSPORT
  /\ wire' = wire \o <<Head(tx_pending[t])>>
  /\ tx_pending' = [tx_pending EXCEPT ![t] = Tail(tx_pending[t])]
  /\ tx_pc' = [tx_pc EXCEPT ![t] =
                 IF Len(tx_pending[t]) = 1 THEN "idle" ELSE "send"]
  /\ UNCHANGED <<last_call, tx_mutex, tx_state, tx_calls>>
  /\ UNCHANGED <<atVars, mgrVars, ntVars, moreVars>>

\* direct_send: one hal_serial_write call for the whole frame, which writes
\* the first `written` bytes; the call returns XSLOT_OK when that is all of
\* them and XSLOT_ERR_SEND_FAIL otherwise, and nothing is retried
direct_send(t, written) ==
  /\ tx_pc[t] = "send"
  /\ transport_ = DIRECT_TRANSPORT
  /\ written <= Len(tx_pending[t])
  /\ wire' = wire \o SubSeq(tx_pending[t], 1, written)
  /\ tx_pending' = [tx_pending EXCEPT ![t] = <<>>]
  /\ tx_pc' = [tx_pc EXCEPT ![t] = "idle"]
  /\ UNCHANGED <<last_call, tx_mutex, tx_state, tx_calls>>
  /\ UNCHANGED <<atVars, mgrVars, ntVars, moreVars>>

\* TPMeshATDriver::sendData -> sendCommand, from the lock of sync_mutex_ to
\* the check of state_: a driver that is busy makes the call return false
\* with nothing written
sendData_lock(t) ==
  /\ tx_pc[t] = "send"
  /\ transport_ = TPMESH_TRANSPORT
  /\ tx_mutex = NoThread
  /\ IF tx_state # IDLE
       THEN /\ tx_pending' = [tx_pending EXCEPT ![t] = <<>>]
            /\ tx_pc' = [tx_pc EXCEPT ![t] = "idle"]
            /\ UNCHANGED <<tx_mutex, tx_state>>
       ELSE /\ tx_mutex' = t
            /\ tx_state' = WAITING_RESPONSE
            /\ tx_pc' = [tx_pc EXCEPT ![t] = "locked"]
            /\ UNCHANGED tx_pending
  /\ UNCHANGED <<last_call, wire, tx_calls>>
  /\ UNCHANGED <<atVars, mgrVars, ntVars, moreVars>>

\* sendCommand, from writeLine to the wait: one serial write of the whole
\* line under sync_mutex_; a short write sets state_ back to IDLE and
\* returns false, a full one waits for the response, which releases the mutex
sendData_writeLine(t, written) ==
  /\ tx_pc[t] = "locked"
  /\ written <= Len(tx_pending[t])
  /\ wire' = wire \o SubSeq(tx_pending[t], 1, written)
  /\ tx_pending' = [tx_pending EXCEPT ![t] = <<>>]
  /\ tx_mutex' = NoThread
  /\ IF written < Len(tx_pending[t])
       THEN /\ tx_state' = IDLE
            /\ tx_pc' = [tx_pc EXCEPT ![t] = "idle"]
       ELSE /\ tx_pc' = [tx_pc EXCEPT ![t] = "wait"]
            /\ UNCHANGED tx_state
  /\ UNCHANGED <<last_call, tx_calls>>
  /\ UNCHANGED <<atVars, mgrVars, ntVars, moreVars>>

\* sendCommand, the end of the wait: the terminal line arrived or the timeout
\* expired; the caller holds the mutex again, state_ is IDLE, the call returns
sendData_return(t) ==
  /\ tx_pc[t] = "wait"
  /\ tx_mutex = NoThread
  /\ tx_state' = IDLE
  /\ tx_pc' = [tx_pc EXCEPT ![t] = "idle"]
  /\ UNCHANGED <<last_call, tx_pending, tx_mutex, wire, tx_calls>>
  /\ UNCHANGED <<atVars, mgrVars, ntVars, moreVars>>

\* no outbound call made, nothing written to the serial port
InitOutVars ==
  /\ last_call = NoCall
  /\ tx_pc = [t \in SendThreads |-> "idle"]
  /\ tx_pending = [t \in SendThreads |-> <<>>]
  /\ tx_mutex = NoThread
  /\ tx_state = IDLE
  /\ wire = <<>>
  /\ tx_calls = 0

(***************************************************************************)
(* Threads inside the node table: src/src/core/node_table.h                *)
(***************************************************************************)
\* the threads that call NodeTable methods: the transport's receiver, through
\* Manager::on_frame_received, and the application, through
\* Manager::check_node_timeout and the node queries
NtThreads == {"rx", "app"}

\* a thread that is in no NodeTable method
NtOutside == [op |-> "none", addr |-> 0, timeout_ms |-> 0]

\* the methods that write entries_ or count_, and the ones that only read
NtWriters == {"update", "check_timeout"}
NtReaders == {"get", "get_all", "is_online", "online_count"}

\* the calls each thread makes
NtCalls(t) ==
  IF t = "rx"
    THEN {[op |-> "update", addr |-> a, timeout_ms |-> 0] :
            a \in {EDGE1, EDGE2}}
    ELSE {[op |-> "check_timeout", addr |-> 0, timeout_ms |-> 1]}
         \cup {[op |-> o, addr |-> 0, timeout_ms |-> 0] :
                 o \in {"get_all", "online_count"}}
         \cup {[op |-> o, addr |-> EDGE1, timeout_ms |-> 0] :
                 o \in {"get", "is_online"}}

\* no thread is inside a NodeTable method
InitRaceVars == nt_in = [t \in NtThreads |-> NtOutside]

\* thread t enters a NodeTable method: none of them takes a lock or waits for
\* anything
nt_enter(t, call) ==
  /\ nt_in[t].op = "none"
  /\ nt_in' = [nt_in EXCEPT ![t] = call]
  /\ UNCHANGED <<atVars, mgrVars, ntVars, outVars, exceptRace>>

\* thread t completes the method it is in and returns
nt_return(t) ==
  /\ nt_in[t].op # "none"
  /\ IF nt_in[t].op = "update"
       THEN DoUpdate(nt_in[t].addr, 0) /\ UNCHANGED now
     ELSE IF nt_in[t].op = "check_timeout"
       THEN DoCheckTimeout(nt_in[t].timeout_ms, TRUE) /\ UNCHANGED now
     ELSE UNCHANGED ntVars
  /\ nt_in' = [nt_in EXCEPT ![t] = NtOutside]
  /\ UNCHANGED <<atVars, mgrVars, outVars, exceptRace>>

(***************************************************************************)
(* Stopping the receiver                                                   *)
(***************************************************************************)
\* no transport started: no receiver thread, nobody in stop
InitStopVars ==
  /\ drv_running = FALSE
  /\ rx_pc = "none"
  /\ stop_pc = "idle"
  /\ stop_overlap = FALSE

\* the transport of a started Manager begins to run.  TPMeshATDriver::open
\* sets running_ and starts the receiver thread; direct_start sets running
\* and starts no thread.
transport_open ==
  /\ running_
  /\ transport_ \in {DIRECT_TRANSPORT, TPMESH_TRANSPORT}
  /\ ~drv_running
  /\ stop_pc # "join"
  /\ drv_running' = TRUE
  /\ rx_pc' = IF transport_ = TPMESH_TRANSPORT THEN "test" ELSE "none"
  /\ stop_pc' = "idle"
  /\ UNCHANGED stop_overlap
  /\ UNCHANGED <<atVars, mgrVars, ntVars, outVars, exceptStop>>

\* rxThreadFunc: the test of the while loop
rx_test ==
  /\ rx_pc = "test"
  /\ rx_pc' = IF drv_running THEN "read" ELSE "exited"
  /\ UNCHANGED <<drv_running, stop_pc, stop_overlap>>
  /\ UNCHANGED <<atVars, mgrVars, ntVars, outVars, exceptStop>>

\* rxThreadFunc: readLine returns within 200 ms, with a line or without one;
\* a line goes to processLine, which calls urc_callback_ for a URC
rx_read(got_urc) ==
  /\ rx_pc = "read"
  /\ rx_pc' = IF got_urc THEN "handler" ELSE "test"
  /\ UNCHANGED <<drv_running, stop_pc, stop_overlap>>
  /\ UNCHANGED <<atVars, mgrVars, ntVars, outVars, exceptStop>>

\* urc_callback_, and with it the receive dispatch and the user's callback,
\* returns; processLine returns to the loop
rx_handler_return ==
  /\ rx_pc = "handler"
  /\ rx_pc' = "test"
  /\ UNCHANGED <<drv_running, stop_pc, stop_overlap>>
  /\ UNCHANGED <<atVars, mgrVars, ntVars, outVars, exceptStop>>

\* Manager::start called by the application thread, which is not inside stop
app_start(mesh_probe, start_result) ==
  /\ stop_pc # "join"
  /\ ~drv_running
  /\ start(mesh_probe, TRUE, TRUE, start_result)

\* Manager::stop called by the application, up to the join: running_ = false,
\* then transport_->stop(), where close / direct_stop clear the transport's
\* running flag
stop_begin ==
  /\ stop_pc \in {"idle", "returned"}
  /\ running_
  /\ drv_running
  /\ running_' = FALSE
  /\ drv_running' = FALSE
  /\ stop_pc' = "join"
  /\ stop_overlap' = (rx_pc = "handler")
  /\ UNCHANGED rx_pc
  /\ UNCHANGED <<mode_, transport_, seq_, callbacks, last_start, dispatch>>
  /\ UNCHANGED <<atVars, ntVars, outVars, exceptStop>>

\* a stop that does not wait for the receiver thread
stop_return_no_join ==
  /\ stop_pc = "join"
  /\ transport_' = NO_TRANSPORT
  /\ last_start' = NoStart
  /\ stop_pc' = "returned"
  /\ UNCHANGED <<drv_running, rx_pc, stop_overlap>>
  /\ UNCHANGED <<running_, mode_, seq_, callbacks, dispatch>>
  /\ UNCHANGED <<atVars, ntVars, outVars, exceptStop>>

\* Manager::stop from the join to its return: close joins the receiver
\* thread if there is one (direct_stop has none to join), the serial port is
\* closed, transport_ is reset
stop_return ==
  /\ stop_pc = "join"
  /\ rx_pc \in {"none", "exited"}
  /\ transport_' = NO_TRANSPORT
  /\ last_start' = NoStart
  /\ stop_pc' = "returned"
  /\ UNCHANGED <<drv_running, rx_pc, stop_overlap>>
  /\ UNCHANGED <<running_, mode_, seq_, callbacks, dispatch>>
  /\ UNCHANGED <<atVars, ntVars, outVars, exceptStop>>

(***************************************************************************)
(* The frame codec: src/src/core/frame.h, CRC16 of src/core.h              *)
(***************************************************************************)
\* payload lengths of the frames encoded, besides the full MAX_DATA_LEN
MaxData == 2

\* frame_const::SYNC_BYTE, MIN_SIZE and MAX_SIZE
SYNC_BYTE == 170
MIN_SIZE == HEADER_SIZE + CRC_SIZE
MAX_SIZE == HEADER_SIZE + MAX_DATA_LEN + CRC_SIZE

\* x ^ y of two w-bit values
RECURSIVE xor(_, _, _)
xor(x, y, w) ==
  IF w = 0 THEN 0
  ELSE ((x + y) % 2) + 2 * xor(x \div 2, y \div 2, w - 1)

\* the body of the inner loop of CRC16::Calculate, on a uint16_t:
\* if (crc & 0x8000) crc = (crc << 1) ^ 0x1021; else crc <<= 1;
crc_shift(crc) ==
  IF crc >= 32768 THEN xor((crc * 2) % 65536, 4129, 16)
  ELSE (crc * 2) % 65536

\* the inner loop: j shifts.  (crc is never negative: the test has TLC
\* compute each value before the next one is asked for)
RECURSIVE crc_shifts(_, _)
crc_shifts(crc, j) ==
  IF j = 0 \/ crc < 0 THEN crc ELSE crc_shifts(crc_shift(crc), j - 1)

\* the outer loop over data[lo..hi]: crc ^= data[i] << 8, then the 8 shifts,
\* byte after byte.  The range is cut in two, the crc of the first part
\* going into the second, which keeps the evaluation shallow
RECURSIVE crc_bytes(_, _, _, _)
crc_bytes(crc, data, lo, hi) ==
  IF lo > hi \/ crc < 0 THEN crc
  ELSE IF lo = hi THEN crc_shifts(xor(crc, data[lo] * 256, 16), 8)
  ELSE LET mid == (lo + hi) \div 2
       IN crc_bytes(crc_bytes(crc, data, lo, mid), data, mid + 1, hi)

\* calculate_crc16 (CRC16-CCITT): CRC16::Calculate, crc starts as 0xFFFF
calculate_crc16(data) == crc_bytes(65535, data, 1, Len(data))

\* the 8 header bytes Frame::encode writes: sync, from, to, seq, cmd, len
header_bytes(frame) ==
  <<SYNC_BYTE>> \o write_u16(frame.from) \o write_u16(frame.to)
    \o <<frame.seq, frame.cmd, Len(frame.data)>>

\* Frame::encode into a buffer of the given size: header, payload, then
\* the CRC of both, little-endian
encode(frame, size) ==
  IF size < total_size(frame) THEN BuildError("NoMemory")
  ELSE LET body == header_bytes(frame) \o frame.data
       IN [ok |-> TRUE, bytes |-> body \o write_u16(calculate_crc16(body))]

\* Frame::decode that reads from_ and to_ most significant byte first
decode_big_endian(buffer) ==
  IF Len(buffer) < MIN_SIZE THEN BuildError("InvalidParam")
  ELSE IF buffer[1] # SYNC_BYTE THEN BuildError("InvalidParam")
  ELSE LET len == buffer[8]
       IN IF len > MAX_DATA_LEN THEN BuildError("InvalidParam")
          ELSE IF Len(buffer) < HEADER_SIZE + len + CRC_SIZE
            THEN BuildError("InvalidParam")
          ELSE IF calculate_crc16(SubSeq(buffer, 1, HEADER_SIZE + len))
                    # read_u16(buffer, HEADER_SIZE + len)
            THEN BuildError("CrcError")
          ELSE [ok |-> TRUE,
                frame |-> [sync |-> buffer[1],
                           from |-> buffer[2] * 256 + buffer[3],
                           to |-> buffer[4] * 256 + buffer[5],
                           seq |-> buffer[6], cmd |-> buffer[7], len |-> len,
                           data |-> SubSeq(buffer, HEADER_SIZE + 1,
                                           HEADER_SIZE + len),
                           crc |-> read_u16(buffer, HEADER_SIZE + len)]]

\* Frame::decode: the checks in the order of the code, each optional read
\* succeeding once the buffer holds MIN_SIZE bytes
decode(buffer) ==
  IF Len(buffer) < MIN_SIZE THEN BuildError("InvalidParam")
  ELSE IF buffer[1] # SYNC_BYTE THEN BuildError("InvalidParam")
  ELSE LET len == buffer[8]
       IN IF len > MAX_DATA_LEN THEN BuildError("InvalidParam")
          ELSE IF Len(buffer) < HEADER_SIZE + len + CRC_SIZE
            THEN BuildError("InvalidParam")
          ELSE IF calculate_crc16(SubSeq(buffer, 1, HEADER_SIZE + len))
                    # read_u16(buffer, HEADER_SIZE + len)
            THEN BuildError("CrcError")
          ELSE [ok |-> TRUE,
                frame |-> [sync |-> buffer[1],
                           from |-> read_u16(buffer, 1),
                           to |-> read_u16(buffer, 3),
                           seq |-> buffer[6], cmd |-> buffer[7], len |-> len,
                           data |-> SubSeq(buffer, HEADER_SIZE + 1,
                                           HEADER_SIZE + len),
                           crc |-> read_u16(buffer, HEADER_SIZE + len)]]

\* a payload of n bytes
Payload(n) == [i \in 1..n |-> (i * 85 + 1) % 256]

\* a WriteAck whose one result byte and CRC low byte happen to be the CRC of
\* its header with len 0
ACK_SEQ91 == build_write_ack(local_addr, EDGE1, 91, 217)

\* the frames encoded: every mix of addresses, seq and cmd with the short
\* payloads, one frame with a full payload, and ACK_SEQ91
CodecFrames ==
  {[from |-> from, to |-> to, seq |-> seq, cmd |-> cmd, data |-> Payload(n)] :
     from \in {local_addr, EDGE1}, to \in {EDGE1, XSLOT_ADDR_BROADCAST},
     seq \in {0, 255}, cmd \in {XSLOT_CMD_PING, XSLOT_CMD_REPORT},
     n \in 0..MaxData}
  \cup {[from |-> EDGE1, to |-> local_addr, seq |-> 42,
         cmd |-> XSLOT_CMD_REPORT, data |-> Payload(MAX_DATA_LEN)]}
  \cup {ACK_SEQ91}

\* the sizes of the buffers handed to Frame::encode
BufferSizes == {MIN_SIZE, MAX_SIZE}

\* no decode result yet
NoResult == [ok |-> FALSE, error |-> "none"]

\* buffer with bit b (0 the lowest bit of the first byte) inverted
flip_bit(buffer, b) ==
  LET i == (b \div 8) + 1
      mask == 2 ^ (b % 8)
  IN [buffer EXCEPT ![i] = xor(buffer[i], mask, 8)]

InitCodecVars ==
  /\ cd_frame = NoFrame
  /\ cd_buf = <<>>
  /\ cd_flip = -1
  /\ cd_res = NoResult

\* a caller encodes a frame into a fresh buffer of the given size
codec_encode(frame, size) ==
  /\ cd_frame = NoFrame
  /\ cd_frame' = frame
  /\ cd_buf' = LET r == encode(frame, size)
               IN IF r.ok THEN r.bytes ELSE <<>>
  /\ cd_flip' = -1
  /\ cd_res' = NoResult
  /\ UNCHANGED <<atVars, mgrVars, ntVars, outVars, exceptCodec>>

\* the link inverts one bit of the header or payload of the encoded frame
codec_corrupt(b) ==
  /\ cd_buf # <<>>
  /\ cd_flip = -1
  /\ cd_res = NoResult
  /\ b < (HEADER_SIZE + Len(cd_frame.data)) * 8
  /\ cd_buf' = flip_bit(cd_buf, b)
  /\ cd_flip' = b
  /\ UNCHANGED <<cd_frame, cd_res>>
  /\ UNCHANGED <<atVars, mgrVars, ntVars, outVars, exceptCodec>>

\* the receiver decodes the buffer
codec_decode ==
  /\ cd_res = NoResult
  /\ cd_res' = decode(cd_buf)
  /\ UNCHANGED <<cd_frame, cd_buf, cd_flip>>
  /\ UNCHANGED <<atVars, mgrVars, ntVars, outVars, exceptCodec>>

(***************************************************************************)
(* The Direct transport: src/src/transport/direct_transport.cpp            *)
(***************************************************************************)
\* the number of garbage bytes ahead of a frame on the line
MaxGarbage == 3

\* Frame::verify_crc / xslot_frame_verify_crc
verify_crc(buffer) ==
  IF Len(buffer) < MIN_SIZE THEN FALSE
  ELSE LET data_len == buffer[8]
       IN IF data_len > MAX_DATA_LEN THEN FALSE
          ELSE IF Len(buffer) < HEADER_SIZE + data_len + CRC_SIZE THEN FALSE
          ELSE calculate_crc16(SubSeq(buffer, 1, HEADER_SIZE + data_len))
                 = read_u16(buffer, HEADER_SIZE + data_len)

\* the inner while loop of try_parse_frame: the number of bytes ahead of
\* the first sync byte
RECURSIVE sync_pos(_)
sync_pos(buffer) ==
  IF buffer = <<>> \/ Head(buffer) = SYNC_BYTE THEN 0
  ELSE 1 + sync_pos(Tail(buffer))

\* try_parse_frame: what it leaves in rx_buffer and the frames it hands to
\* recv_cb, appended to delivered
RECURSIVE try_parse_frame(_, _)
try_parse_frame(rx_buffer, delivered) ==
  IF Len(rx_buffer) < MIN_SIZE
    THEN [rx_buffer |-> rx_buffer, delivered |-> delivered]
  ELSE
    LET synced == SubSeq(rx_buffer, sync_pos(rx_buffer) + 1, Len(rx_buffer))
    IN IF Len(synced) < MIN_SIZE
         THEN [rx_buffer |-> synced, delivered |-> delivered]
       ELSE IF synced[8] > MAX_DATA_LEN
         THEN try_parse_frame(Tail(synced), delivered)
       ELSE
         LET frame_size == HEADER_SIZE + synced[8] + CRC_SIZE
         IN IF Len(synced) < frame_size
              THEN [rx_buffer |-> synced, delivered |-> delivered]
            ELSE IF verify_crc(SubSeq(synced, 1, frame_size))
              THEN try_parse_frame(
                     SubSeq(synced, frame_size + 1, Len(synced)),
                     Append(delivered, SubSeq(synced, 1, frame_size)))
            ELSE try_parse_frame(Tail(synced), delivered)

\* the frames the peer sends
PeerFrames ==
  {build_ping(EDGE1, local_addr, 42),
   build_write_ack(EDGE1, local_addr, 7, XSLOT_OK),
   build_query(EDGE1, local_addr, 8, <<7>>).frame}

\* line noise without a sync byte in it, up to MaxGarbage bytes
Garbage == {SubSeq(<<0, 17, 34, 85>>, 1, n) : n \in 0..MaxGarbage}

\* a stream on the line: garbage, then one encoded frame
Stream(garbage, frame) == garbage \o encode(frame, MAX_SIZE).bytes

PeerStreams == {Stream(g, f) : g \in Garbage, f \in PeerFrames}

\* the encoded frame a stream ends with
FrameOf(stream) ==
  CHOOSE bytes \in {encode(f, MAX_SIZE).bytes : f \in PeerFrames} :
    \E g \in Garbage : stream = g \o bytes

InitDirectVars ==
  /\ d_running = FALSE
  /\ d_start_result = "none"
  /\ d_rx_buffer = <<>>
  /\ d_delivered = <<>>
  /\ d_line = <<>>
  /\ d_stream = <<>>
  /\ d_pos = 0

\* direct_start: opens the port and sets running; it starts no thread and
\* reads nothing
direct_start(open_ok) ==
  /\ ~d_running
  /\ IF open_ok
       THEN /\ d_running' = TRUE
            /\ d_rx_buffer' = <<>>
            /\ d_start_result' = "Ok"
       ELSE /\ d_start_result' = "NoDevice"
            /\ UNCHANGED <<d_running, d_rx_buffer>>
  /\ UNCHANGED <<d_delivered, d_line, d_stream, d_pos>>
  /\ UNCHANGED <<atVars, mgrVars, ntVars, outVars, exceptDirect>>

\* the peer at the other end of the line begins to send a stream
peer_begin(stream) ==
  /\ d_running
  /\ d_stream = <<>>
  /\ d_stream' = stream
  /\ UNCHANGED <<d_running, d_start_result, d_rx_buffer, d_delivered, d_line,
                 d_pos>>
  /\ UNCHANGED <<atVars, mgrVars, ntVars, outVars, exceptDirect>>

\* the next k bytes of the stream arrive at the open port
peer_bytes_arrive(k) ==
  /\ d_running
  /\ d_pos + k <= Len(d_stream)
  /\ d_line' = d_line \o SubSeq(d_stream, d_pos + 1, d_pos + k)
  /\ d_pos' = d_pos + k
  /\ UNCHANGED <<d_running, d_start_result, d_rx_buffer, d_delivered,
                 d_stream>>
  /\ UNCHANGED <<atVars, mgrVars, ntVars, outVars, exceptDirect>>

\* the receiver task of the Direct transport, which src does not hold: it
\* polls the port, appends what it read to rx_buffer and calls
\* try_parse_frame
receiver_poll ==
  /\ d_running
  /\ d_line # <<>>
  /\ LET parsed == try_parse_frame(d_rx_buffer \o d_line, d_delivered)
     IN /\ d_rx_buffer' = parsed.rx_buffer
        /\ d_delivered' = parsed.delivered
  /\ d_line' = <<>>
  /\ UNCHANGED <<d_running, d_start_result, d_stream, d_pos>>
  /\ UNCHANGED <<atVars, mgrVars, ntVars, outVars, exceptDirect>>

\* an encoded frame whose length byte was overwritten with 200
bad_length(bytes) == [bytes EXCEPT ![HEADER_SIZE] = 200]

\* corrupted bytes ahead of a frame: a stray sync byte alone and inside
\* noise, a Ping with one bit of its CRC flipped, a Ping with a length byte
\* above MAX_DATA_LEN
CorruptedPrefixes ==
  {<<SYNC_BYTE>>,
   <<0, SYNC_BYTE, 17>>,
   flip_bit(encode(build_ping(EDGE1, local_addr, 41), MAX_SIZE).bytes, 64),
   bad_length(encode(build_ping(EDGE1, local_addr, 41), MAX_SIZE).bytes)}

\* corrupted bytes, then one valid frame
CorruptedStreams == {Stream(g, f) : g \in CorruptedPrefixes, f \in PeerFrames}

\* the valid frames a stream of CorruptedStreams may end with
ValidFramesOf(stream) ==
  {bytes \in {encode(f, MAX_SIZE).bytes : f \in PeerFrames} :
     \E g \in CorruptedPrefixes : stream = g \o bytes}

(***************************************************************************)
(* The AT driver, its mutexes and the modem:                               *)
(* src/src/transport/tpmesh_at_driver.{h,cpp}                              *)
(***************************************************************************)
\* the number of commands written to the modem
MaxIssued == 2
\* the number of lines the modem sends
MaxSent == 3

\* the application thread that sends commands and the receiver thread
\* (rx_thread_)
LkCallers == {"app1"}
RX == "rx"
\* the threads that may call sendCommand from outside the driver
AppThreads == {"app1", "app2"}

LkThreads == AppThreads \cup {RX}

\* "+SEND:10,SEND ERROR"
LINE_SEND_ERROR == <<"+", "S", "E", "N", "D", ":", "1", "0", ",", "S", "E", "N", "D", " ", "E", "R", "R", "O", "R">>

\* the URC lines the modem sends on its own
UrcLines == {LINE_NNMI, LINE_SEND_OK, LINE_SEND_ERROR}

\* the terminal lines with which the modem answers a command
TerminalLines == {LINE_OK, LINE_ERROR}

\* a free mutex, and mutex m after thread t locked or unlocked it once
FreeMutex == [holder |-> "none", depth |-> 0]
Locked(m, t) == [holder |-> t, depth |-> m.depth + 1]
Unlocked(m) ==
  IF m.depth = 1 THEN FreeMutex ELSE [m EXCEPT !.depth = m.depth - 1]

\* no line, no return value
NoLine == [text |-> <<>>, for |-> 0]
NoLkReturn == [via |-> "none", ok |-> FALSE, cmd |-> 0, by |-> NoLine]

InitLockVars ==
  /\ sync_mutex_ = FreeMutex
  /\ urc_mutex_ = "none"
  /\ lk_state = IDLE
  /\ lk_response_ok = FALSE
  /\ lk_response_buffer = <<>>
  /\ lk_pc = [t \in LkThreads |-> "idle"]
  /\ lk_cmd = [t \in LkThreads |-> 0]
  /\ lk_ret = [t \in LkThreads |-> NoLkReturn]
  /\ lk_issued = 0
  /\ lk_answered = 0
  /\ lk_lines = <<>>
  /\ lk_sent = 0
  /\ lk_ender = NoLine

\* an application thread calls sendCommand and arrives at
\* unique_lock lock(sync_mutex_)
sendCommand_call(t) ==
  /\ t \in AppThreads
  /\ lk_pc[t] = "idle"
  /\ lk_issued < MaxIssued
  /\ lk_pc' = [lk_pc EXCEPT ![t] = "locking"]
  /\ UNCHANGED <<sync_mutex_, urc_mutex_, lk_state, lk_response_ok,
                 lk_response_buffer, lk_cmd, lk_ret, lk_issued, lk_answered,
                 lk_lines, lk_sent, lk_ender>>
  /\ UNCHANGED <<atVars, mgrVars, ntVars, outVars, exceptLock>>

\* sendCommand from the moment thread t has locked sync_mutex_ to its
\* return or to wait_for, which unlocks the mutex once.  The thread's
\* position is before when it is not in the call and waiting while it is
\* in wait_for
sendCommand_body(t, write_ok, before, waiting) ==
  IF lk_state # IDLE
    THEN \* "AT driver is busy"
         /\ lk_ret' = [lk_ret EXCEPT ![t] = [via |-> "busy", ok |-> FALSE,
                                             cmd |-> 0, by |-> NoLine]]
         /\ lk_pc' = [lk_pc EXCEPT ![t] = before]
         /\ UNCHANGED <<lk_state, lk_response_ok, lk_response_buffer, lk_cmd,
                        lk_issued, lk_ender>>
  ELSE IF ~write_ok
    THEN \* writeLine failed: state_ = IDLE, return false
         /\ lk_response_buffer' = <<>>
         /\ lk_response_ok' = FALSE
         /\ lk_ret' = [lk_ret EXCEPT ![t] = [via |-> "write", ok |-> FALSE,
                                             cmd |-> 0, by |-> NoLine]]
         /\ lk_pc' = [lk_pc EXCEPT ![t] = before]
         /\ UNCHANGED <<lk_state, lk_cmd, lk_issued, lk_ender>>
  ELSE /\ lk_state' = WAITING_RESPONSE
       /\ lk_response_buffer' = <<>>
       /\ lk_response_ok' = FALSE
       /\ lk_issued' = lk_issued + 1
       /\ lk_cmd' = [lk_cmd EXCEPT ![t] = lk_issued + 1]
       /\ lk_ender' = NoLine
       /\ lk_pc' = [lk_pc EXCEPT ![t] = waiting]
       /\ UNCHANGED lk_ret

\* an application thread gets sync_mutex_ and runs sendCommand up to its
\* return or its wait; either way the mutex is free afterwards
sendCommand_locked(t, write_ok) ==
  /\ t \in AppThreads
  /\ lk_pc[t] = "locking"
  /\ sync_mutex_ = FreeMutex
  /\ sendCommand_body(t, write_ok, "idle", "waiting")
  /\ UNCHANGED <<sync_mutex_, urc_mutex_, lk_answered, lk_lines, lk_sent>>
  /\ UNCHANGED <<atVars, mgrVars, ntVars, outVars, exceptLock>>

\* sendCommand after wait_for, for a thread in position waiting that goes
\* on to position after; a timeout leaves state_ as it is
sendCommand_wake_no_reset(t, expired, waiting, after) ==
  /\ lk_pc[t] = waiting
  /\ sync_mutex_.holder \in {"none", t}
  /\ IF lk_state = IDLE
       THEN /\ lk_ret' = [lk_ret EXCEPT ![t] =
                            [via |-> "pred", ok |-> lk_response_ok,
                             cmd |-> lk_cmd[t], by |-> lk_ender]]
            /\ UNCHANGED lk_state
       ELSE /\ expired
            /\ UNCHANGED lk_state
            /\ lk_ret' = [lk_ret EXCEPT ![t] =
                            [via |-> "timeout", ok |-> FALSE,
                             cmd |-> lk_cmd[t], by |-> NoLine]]
  /\ lk_pc' = [lk_pc EXCEPT ![t] = after]
  /\ UNCHANGED <<sync_mutex_, urc_mutex_, lk_response_ok, lk_response_buffer,
                 lk_cmd, lk_issued, lk_answered, lk_lines, lk_sent, lk_ender>>
  /\ UNCHANGED <<atVars, mgrVars, ntVars, outVars, exceptLock>>

\* sendCommand from the return of sync_cv_.wait_for, which has locked
\* sync_mutex_ again, to the return of sendCommand, which unlocks it: for a
\* thread in position waiting that goes on to position after.  wait_for
\* returns the predicate state_ == IDLE; expired tells whether timeout_ms
\* has elapsed
sendCommand_wake(t, expired, waiting, after) ==
  /\ lk_pc[t] = waiting
  /\ sync_mutex_.holder \in {"none", t}
  /\ IF lk_state = IDLE
       THEN \* got_response: return response_ok_
            /\ lk_ret' = [lk_ret EXCEPT ![t] =
                            [via |-> "pred", ok |-> lk_response_ok,
                             cmd |-> lk_cmd[t], by |-> lk_ender]]
            /\ UNCHANGED lk_state
       ELSE \* "Command timeout": state_ = IDLE; return false
            /\ expired
            /\ lk_state' = IDLE
            /\ lk_ret' = [lk_ret EXCEPT ![t] =
                            [via |-> "timeout", ok |-> FALSE,
                             cmd |-> lk_cmd[t], by |-> NoLine]]
  /\ lk_pc' = [lk_pc EXCEPT ![t] = after]
  /\ UNCHANGED <<sync_mutex_, urc_mutex_, lk_response_ok, lk_response_buffer,
                 lk_cmd, lk_issued, lk_answered, lk_lines, lk_sent, lk_ender>>
  /\ UNCHANGED <<atVars, mgrVars, ntVars, outVars, exceptLock>>

\* an application thread wakes in wait_for and returns from sendCommand
app_wake(t, expired) ==
  /\ t \in AppThreads
  /\ sendCommand_wake(t, expired, "waiting", "idle")

\* the modem answers the oldest command it has not answered yet
modem_answer(text) ==
  /\ lk_answered < lk_issued
  /\ lk_sent < MaxSent
  /\ lk_lines' = Append(lk_lines, [text |-> text, for |-> lk_answered + 1])
  /\ lk_answered' = lk_answered + 1
  /\ lk_sent' = lk_sent + 1
  /\ UNCHANGED <<sync_mutex_, urc_mutex_, lk_state, lk_response_ok,
                 lk_response_buffer, lk_pc, lk_cmd, lk_ret, lk_issued,
                 lk_ender>>
  /\ UNCHANGED <<atVars, mgrVars, ntVars, outVars, exceptLock>>

\* the modem sends a URC, which answers no command
modem_urc(text) ==
  /\ lk_sent < MaxSent
  /\ lk_lines' = Append(lk_lines, [text |-> text, for |-> 0])
  /\ lk_sent' = lk_sent + 1
  /\ UNCHANGED <<sync_mutex_, urc_mutex_, lk_state, lk_response_ok,
                 lk_response_buffer, lk_pc, lk_cmd, lk_ret, lk_issued,
                 lk_answered, lk_ender>>
  /\ UNCHANGED <<atVars, mgrVars, ntVars, outVars, exceptLock>>

\* rxThreadFunc reads a line and processLine handles it: LockGuard
\* lock(sync_mutex_), then the state machine.  In WAITING_RESPONSE the
\* function returns and unlocks; in IDLE with a line that starts with '+' it
\* locks urc_mutex_ and calls urc_callback_, both mutexes held
rx_processLine ==
  /\ lk_pc[RX] = "idle"
  /\ lk_lines # <<>>
  /\ sync_mutex_ = FreeMutex
  /\ lk_lines' = Tail(lk_lines)
  /\ LET line == Head(lk_lines)
     IN IF lk_state = WAITING_RESPONSE
          THEN /\ IF Contains(line.text, <<"O", "K">>)
                    THEN /\ lk_response_ok' = TRUE
                         /\ lk_state' = IDLE
                         /\ lk_ender' = line
                         /\ UNCHANGED lk_response_buffer
                  ELSE IF Contains(line.text, <<"E", "R", "R", "O", "R">>)
                    THEN /\ lk_response_ok' = FALSE
                         /\ lk_state' = IDLE
                         /\ lk_ender' = line
                         /\ UNCHANGED lk_response_buffer
                  ELSE /\ lk_response_buffer' =
                            Append(lk_response_buffer, line.text)
                       /\ UNCHANGED <<lk_response_ok, lk_state, lk_ender>>
               /\ UNCHANGED <<sync_mutex_, urc_mutex_, lk_pc>>
          ELSE /\ IF StartsWithPlus(line.text)
                    THEN /\ sync_mutex_' = Locked(sync_mutex_, RX)
                         /\ urc_mutex_' = RX
                         /\ lk_pc' = [lk_pc EXCEPT ![RX] = "handler"]
                    ELSE UNCHANGED <<sync_mutex_, urc_mutex_, lk_pc>>
               /\ UNCHANGED <<lk_response_ok, lk_state, lk_response_buffer,
                              lk_ender>>
  /\ UNCHANGED <<lk_cmd, lk_ret, lk_issued, lk_answered, lk_sent>>
  /\ UNCHANGED <<atVars, mgrVars, ntVars, outVars, exceptLock>>

\* urc_callback_ returns and processLine with it: both LockGuards unlock
urc_callback_return ==
  /\ lk_pc[RX] = "handler"
  /\ lk_pc' = [lk_pc EXCEPT ![RX] = "idle"]
  /\ urc_mutex_' = "none"
  /\ sync_mutex_' = Unlocked(sync_mutex_)
  /\ UNCHANGED <<lk_state, lk_response_ok, lk_response_buffer, lk_cmd, lk_ret,
                 lk_issued, lk_answered, lk_lines, lk_sent, lk_ender>>
  /\ UNCHANGED <<atVars, mgrVars, ntVars, outVars, exceptLock>>

\* the URC handler calls sendCommand on the receiver thread, which holds
\* sync_mutex_ already.  hal::Mutex is not implemented in src: where its
\* lock is that of hal_linux.cpp (a default pthread mutex) the thread
\* blocks on itself for good; where it is that of hal_windows.cpp (a
\* critical section, recursive) it goes on to wait_for, which unlocks once
urc_callback_sendCommand(recursive, write_ok) ==
  /\ lk_pc[RX] = "handler"
  /\ lk_issued < MaxIssued
  /\ IF ~recursive
       THEN /\ lk_pc' = [lk_pc EXCEPT ![RX] = "blocked"]
            /\ UNCHANGED <<lk_state, lk_response_ok, lk_response_buffer,
                           lk_cmd, lk_ret, lk_issued, lk_ender>>
       ELSE sendCommand_body(RX, write_ok, "handler", "handler_waiting")
  /\ UNCHANGED <<sync_mutex_, urc_mutex_, lk_answered, lk_lines, lk_sent>>
  /\ UNCHANGED <<atVars, mgrVars, ntVars, outVars, exceptLock>>

\* the receiver thread wakes in the wait_for of the sendCommand its handler
\* called, and is back in the handler
urc_callback_wake(expired) ==
  /\ urc_mutex_ = RX
  /\ sendCommand_wake(RX, expired, "handler_waiting", "handler")

(***************************************************************************)
(* The receive queue of the mesh transport and the receiver task:          *)
(* src/src/transport/tpmesh_transport.cpp, src/src/core/manager.cpp        *)
(***************************************************************************)
\* the number of frames that arrive
MaxArrivals == 3

\* the frames that arrive: a Ping and a Report for the local node, a Ping
\* for another node
QueueFrames ==
  {build_ping(EDGE1, local_addr, 42),
   [from |-> EDGE2, to |-> local_addr, seq |-> 200, cmd |-> XSLOT_CMD_REPORT,
    data |-> REPORT_FULL],
   build_ping(EDGE1, EDGE3, 43)}

\* no frame in the hands of the receiver task
NoQueued == [n |-> 0, frame |-> NoFrame, is_new |-> FALSE]

InitQueueVars ==
  /\ rx_queue_ = <<>>
  /\ q_arrived = 0
  /\ q_pc = "idle"
  /\ q_cur = NoQueued
  /\ q_log = <<>>

\* TPMeshTransport::onURCEvent, case NNMI: the frame parsed from the URC
\* is pushed to the back of rx_queue_ under rx_mutex_
onURCEvent_NNMI(frame) ==
  /\ q_arrived < MaxArrivals
  /\ q_arrived' = q_arrived + 1
  /\ rx_queue_' = Append(rx_queue_, [n |-> q_arrived + 1, frame |-> frame])
  /\ UNCHANGED <<q_pc, q_cur, q_log>>
  /\ UNCHANGED <<atVars, mgrVars, ntVars, outVars, exceptQueue>>

\* a queue that hands out its newest element
pop_newest(queue) ==
  [taken |-> queue[Len(queue)], rest |-> SubSeq(queue, 1, Len(queue) - 1)]

\* rx_queue_.front() and rx_queue_.pop()
pop_front(queue) ==
  [taken |-> Head(queue), rest |-> Tail(queue)]

\* TPMeshTransport::receive once the queue is not empty: the receiver task
\* takes one frame off it under rx_mutex_
receive ==
  /\ running_
  /\ q_pc = "idle"
  /\ rx_queue_ # <<>>
  /\ rx_queue_' = pop_front(rx_queue_).rest
  /\ q_cur' = [n |-> pop_front(rx_queue_).taken.n,
               frame |-> pop_front(rx_queue_).taken.frame, is_new |-> FALSE]
  /\ q_pc' = "received"
  /\ q_log' = Append(q_log, [n |-> pop_front(rx_queue_).taken.n,
                             step |-> "begin"])
  /\ UNCHANGED q_arrived
  /\ UNCHANGED <<atVars, mgrVars, ntVars, outVars, exceptQueue>>

\* Manager::on_frame_received up to the node-table update at the head of
\* handle_frame; a frame for another node ends the dispatch here
dispatch_update ==
  /\ q_pc = "received"
  /\ IF q_cur.frame.to # local_addr /\ q_cur.frame.to # XSLOT_ADDR_BROADCAST
       THEN /\ dispatch' = [frame |-> q_cur.frame, dispatched |-> FALSE,
                            callbacks |-> callbacks, events |-> <<>>]
            /\ q_pc' = "idle"
            /\ q_cur' = NoQueued
            /\ q_log' = Append(q_log, [n |-> q_cur.n, step |-> "end"])
            /\ UNCHANGED ntVars
       ELSE /\ DoUpdate(q_cur.frame.from, 0)
            /\ q_cur' = [q_cur EXCEPT !.is_new =
                           update(entries_, q_cur.frame.from, 0, now).result]
            /\ q_pc' = "handling"
            /\ q_log' = Append(q_log, [n |-> q_cur.n, step |-> "update"])
            /\ UNCHANGED <<now, dispatch>>
  /\ UNCHANGED <<running_, mode_, transport_, seq_, callbacks, last_start>>
  /\ UNCHANGED <<rx_queue_, q_arrived>>
  /\ UNCHANGED <<atVars, outVars, exceptQueue>>

\* the rest of handle_frame: the node callback, the switch on the command
\* with its callbacks and its reply, and the return of on_frame_received
dispatch_command ==
  /\ q_pc = "handling"
  /\ dispatch' = [frame |-> q_cur.frame, dispatched |-> TRUE,
                  callbacks |-> callbacks,
                  events |-> handle_frame(q_cur.frame, q_cur.is_new)]
  /\ q_pc' = "idle"
  /\ q_cur' = NoQueued
  /\ q_log' = Append(q_log, [n |-> q_cur.n, step |-> "end"])
  /\ UNCHANGED <<running_, mode_, transport_, seq_, callbacks, last_start>>
  /\ UNCHANGED <<rx_queue_, q_arrived>>
  /\ UNCHANGED <<atVars, ntVars, outVars, exceptQueue>>

\* the variables of the parts modelled thread by thread, at their start
InitMoreVars ==
  /\ InitRaceVars /\ InitStopVars /\ InitCodecVars /\ InitDirectVars
  /\ InitLockVars /\ InitSweepVars /\ InitQueueVars

\* the state after construction of all subsystems
Init ==
  InitAtVars /\ InitMgrVars /\ InitNtVars /\ InitOutVars /\ InitMoreVars

(***************************************************************************)
(* Specifications                                                          *)
(***************************************************************************)
NextAT ==
  \/ \E c \in Callers, cmd \in Commands, write_ok \in BOOLEAN :
        sendCommand(c, cmd, write_ok)
  \/ \E c \in Callers, expired \in BOOLEAN : sendCommandWake(c, expired)
  \/ \E line \in ModemLines : processLine(line)

SpecAT == Init /\ [][NextAT]_vars

NextMgr ==
  \/ \E mesh_probe, direct_probe, null_created \in BOOLEAN,
        start_result \in {"Ok", "NoDevice"} :
        start(mesh_probe, direct_probe, null_created, start_result)
  \/ stop
  \/ \E name \in CallbackNames : set_callback(name)
  \/ \E frame \in MgrFrames : on_frame_received(frame)

SpecMgr == Init /\ [][NextMgr]_vars

NextNT ==
  \/ \E addr \in NodeAddrs, rssi \in RssiValues : NT_update(addr, rssi)
  \/ \E timeout_ms \in Timeouts, has_cb \in BOOLEAN :
        NT_check_timeout(timeout_ms, has_cb)
  \/ Tick

SpecNT == Init /\ [][NextNT]_vars

\* the node table under every operation that writes to it, and the clock
NextTable ==
  \/ \E addr \in NodeAddrs, rssi \in RssiValues : NT_update(addr, rssi)
  \/ \E timeout_ms \in Timeouts, has_cb \in BOOLEAN :
        NT_check_timeout(timeout_ms, has_cb)
  \/ \E addr \in NodeAddrs : NT_remove(addr)
  \/ NT_clear
  \/ Tick

SpecTable == Init /\ [][NextTable]_vars

\* the Manager with its node table and the clock: frames arrive, time passes,
\* and the application may call check_node_timeout.  Nothing in the library
\* calls check_node_timeout, so only the clock is scheduled fairly.
NextSweep ==
  \/ \E mesh_probe, direct_probe, null_created \in BOOLEAN,
        start_result \in {"Ok", "NoDevice"} :
        start(mesh_probe, direct_probe, null_created, start_result)
  \/ stop
  \/ set_callback("node")
  \/ \E frame \in HeartbeatFrames : on_frame_received(frame)
  \/ \E timeout_ms \in Timeouts : check_node_timeout(timeout_ms)
  \/ Tick

SpecSweep == Init /\ [][NextSweep]_vars /\ WF_vars(Tick)

\* the outbound calls of a Manager that finds a direct link or no device
NextOut ==
  \/ \E direct_probe \in BOOLEAN : start(FALSE, direct_probe, TRUE, "Ok")
  \/ stop
  \/ \E objects \in ReportBatches, send_result \in SendResults :
       report(objects, send_result)
  \/ \E target \in OutTargets, obj \in WriteObjects,
        send_result \in SendResults :
       write(target, obj, send_result)
  \/ \E target \in OutTargets, object_ids \in QueryIds,
        send_result \in SendResults :
       query(target, object_ids, send_result)
  \/ \E target \in OutTargets, send_result \in SendResults :
       ping(target, send_result)

SpecOut == Init /\ [][NextOut]_vars

\* the hub's dispatch of the Report frames the Manager of an edge node emits
NextHub ==
  \/ \E mesh_probe, direct_probe, null_created \in BOOLEAN,
        start_result \in {"Ok", "NoDevice"} :
       start(mesh_probe, direct_probe, null_created, start_result)
  \/ stop
  \/ \E name \in {"report", "node"} : set_callback(name)
  \/ \E frame \in PeerReportFrames : on_frame_received(frame)

SpecHub == Init /\ [][NextHub]_vars

\* two threads sending frames through a started Direct or TPMesh transport
NextWire ==
  \/ \E mesh_probe \in BOOLEAN : start(mesh_probe, TRUE, TRUE, "Ok")
  \/ \E t \in SendThreads : \E frame \in TxFrames(t) : tx_send_frame(t, frame)
  \/ \E t \in SendThreads : \E written \in WriteCounts(t) :
       direct_send(t, written)
  \/ \E t \in SendThreads : sendData_lock(t)
  \/ \E t \in SendThreads : \E written \in WriteCounts(t) :
       sendData_writeLine(t, written)
  \/ \E t \in SendThreads : sendData_return(t)

SpecWire == Init /\ [][NextWire]_vars

\* the receiver thread and the application thread calling NodeTable methods
NextRace ==
  \/ \E t \in NtThreads : \E call \in NtCalls(t) : nt_enter(t, call)
  \/ \E t \in NtThreads : nt_return(t)
  \/ Tick

SpecRace == Init /\ [][NextRace]_vars

\* a Manager that is started and stopped while its transport receives
NextStop ==
  \/ \E mesh_probe \in BOOLEAN : \E start_result \in {"Ok", "NoDevice"} :
       app_start(mesh_probe, start_result)
  \/ transport_open
  \/ rx_test
  \/ \E got_urc \in BOOLEAN : rx_read(got_urc)
  \/ rx_handler_return
  \/ stop_begin
  \/ stop_return
  \/ \E name \in CallbackNames : set_callback(name)

SpecStop == Init /\ [][NextStop]_vars

\* frames encoded, possibly corrupted in one bit, and decoded
NextCodec ==
  \/ \E frame \in CodecFrames : \E size \in BufferSizes :
       codec_encode(frame, size)
  \/ \E b \in 0..((HEADER_SIZE + MAX_DATA_LEN) * 8 - 1) : codec_corrupt(b)
  \/ codec_decode

SpecCodec == Init /\ [][NextCodec]_vars

\* a started Direct transport whose peer sends garbage and a frame.  All
\* that direct_transport.cpp does once started is in NextDirect: no step
\* of it reads the port
NextDirect ==
  \/ \E open_ok \in BOOLEAN : direct_start(open_ok)
  \/ \E stream \in PeerStreams : peer_begin(stream)
  \/ \E k \in 1..(MaxGarbage + MAX_SIZE) : peer_bytes_arrive(k)

SpecDirect == Init /\ [][NextDirect]_vars /\ WF_vars(NextDirect)

\* the Direct transport with a receiver task, and a peer whose frames follow
\* corrupted bytes
NextResync ==
  \/ \E open_ok \in BOOLEAN : direct_start(open_ok)
  \/ \E stream \in CorruptedStreams : peer_begin(stream)
  \/ \E k \in 1..(2 * MAX_SIZE) : peer_bytes_arrive(k)
  \/ receiver_poll

SpecResync == Init /\ [][NextResync]_vars

\* a started Manager on a mesh transport: frames arrive at any time while
\* the receiver task takes them off the queue and dispatches them
NextQueue ==
  \/ start(TRUE, FALSE, TRUE, "Ok")
  \/ \E name \in {"node", "report"} : set_callback(name)
  \/ \E frame \in QueueFrames : onURCEvent_NNMI(frame)
  \/ receive
  \/ dispatch_update
  \/ dispatch_command

SpecQueue == Init /\ [][NextQueue]_vars

\* application threads sending commands, the modem, and the receiver
\* thread with its URC handler
NextLock ==
  \/ \E t \in LkCallers : sendCommand_call(t)
  \/ \E t \in LkCallers : \E write_ok \in BOOLEAN :
       sendCommand_locked(t, write_ok)
  \/ \E t \in LkCallers : \E expired \in BOOLEAN : app_wake(t, expired)
  \/ \E text \in TerminalLines : modem_answer(text)
  \/ \E text \in UrcLines : modem_urc(text)
  \/ rx_processLine
  \/ urc_callback_return
  \/ \E recursive \in BOOLEAN : \E write_ok \in BOOLEAN :
       urc_callback_sendCommand(recursive, write_ok)
  \/ \E expired \in BOOLEAN : urc_callback_wake(expired)

SpecLock == Init /\ [][NextLock]_vars

\* the same with a scheduler that runs every thread that can run, a timer
\* that expires, and a handler that returns
SpecLockLive ==
  /\ SpecLock
  /\ \A t \in LkCallers :
       WF_vars(\E write_ok \in BOOLEAN : sendCommand_locked(t, write_ok))
  /\ \A t \in LkCallers : WF_vars(app_wake(t, TRUE))
  /\ WF_vars(rx_processLine)
  /\ WF_vars(urc_callback_return)
  /\ WF_vars(urc_callback_wake(TRUE))

\* two application threads that call sendCommand at any time, the modem
\* answering each command written, and the receiver thread
NextSerial ==
  \/ \E t \in AppThreads : sendCommand_call(t)
  \/ \E t \in AppThreads : \E write_ok \in BOOLEAN :
       sendCommand_locked(t, write_ok)
  \/ \E t \in AppThreads : \E expired \in BOOLEAN : app_wake(t, expired)
  \/ \E text \in TerminalLines : modem_answer(text)
  \/ rx_processLine

SpecSerial == Init /\ [][NextSerial]_vars

(***************************************************************************)
(* Properties of the AT driver                                             *)
(***************************************************************************)
\* a URC is a non-terminal line starting with '+'
IsURC(line) == StartsWithPlus(line) /\ line # LINE_OK /\ line # LINE_ERROR

\* the raw lines handed to the URC handler so far
DeliveredLines == [i \in DOMAIN urc_delivered |-> urc_delivered[i].raw_line]

\* the lines read so far, in the order read
LinesRead == [i \in DOMAIN rx_log |-> rx_log[i].line]

\* the value sendCommand handed back, by name
ResultName(r) == IF r.ok THEN "Ok" ELSE "false"

\* C1: every URC line the receiver thread read while a command was awaiting
\* its terminal line has been dispatched to the URC handler.
C1_UrcDuringCommandDispatched ==
  \A i \in DOMAIN rx_log :
    (rx_log[i].st = WAITING_RESPONSE /\ IsURC(rx_log[i].line))
      => \E j \in DOMAIN urc_delivered : urc_delivered[j].raw_line = rx_log[i].line

\* C5: at most one transmitted command is unresolved (no terminal line, no
\* timeout yet) at any time.
C5_AtMostOneInFlight == Cardinality(inflight) <= 1

\* C6 as stated: a command ended by a terminal ERROR line returns
\* ProtocolError and a command that timed out returns Timeout.
C6_DistinctErrorResults ==
  \A c \in Callers :
    /\ (ret[c].via = "pred" /\ ret[c].term = LINE_ERROR)
          => ResultName(ret[c]) = "ProtocolError"
    /\ ret[c].via = "timeout" => ResultName(ret[c]) = "Timeout"

\* C6 as amended: sendCommand returns plain failure (false) when the terminal
\* line that ended its wait is ERROR and also when it timed out; it never
\* returns success in either case.
C6_ErrorAndTimeoutReturnFalse ==
  \A c \in Callers :
    /\ (ret[c].via = "pred" /\ ret[c].term = LINE_ERROR) => ret[c].ok = FALSE
    /\ ret[c].via = "timeout" => ret[c].ok = FALSE

\* one thread has returned after a terminal ERROR line, another after a timeout
C6_Witness ==
  \E c, d \in Callers :
    /\ ret[c].via = "pred" /\ ret[c].term = LINE_ERROR
    /\ ret[d].via = "timeout"

\* C7: the lines a successful sendCommand returns contain no URC.
C7_NoUrcAmongResponseLines ==
  \A c \in Callers :
    ret[c].ok => \A i \in DOMAIN ret[c].lines : ~IsURC(ret[c].lines[i])

\* C8: the URC handler has received exactly the URC lines read so far, in
\* the order they were read, including those read while a command was in
\* flight.
C8_UrcsDeliveredInArrivalOrder ==
  DeliveredLines = SelectSeq(LinesRead, IsURC)

(***************************************************************************)
(* Properties of the Manager                                               *)
(***************************************************************************)
IsSend(e) == e.ev = "send"
IsNodeCb(e) == e.ev = "node_cb"
IsCommandCb(e) == e.ev \in {"write_cb", "report_cb", "data_cb"}

\* the events of the last dispatch without the node callback that may lead them
CommandEvents == SelectSeq(dispatch.events, LAMBDA e : ~IsNodeCb(e))

\* C2: a start that found neither a mesh modem nor a direct link returns
\* NoDevice and leaves the Null transport installed.
C2_NoDeviceStartReturnsNoDevice ==
  NoDeviceFound(last_start)
    => last_start.result = "NoDevice" /\ transport_ = NULL_TRANSPORT

\* C3: a Ping addressed to the local node is answered by exactly one frame,
\* Pong(from = local, to = the Ping's sender, seq = the Ping's seq) with an
\* empty payload, and no write, report or data callback is invoked.
C3_PingAnsweredByOnePong ==
  (dispatch.dispatched /\ dispatch.frame.cmd = XSLOT_CMD_PING
     /\ dispatch.frame.to = local_addr)
    => /\ SelectSeq(dispatch.events, IsSend) =
            <<[ev |-> "send",
               frame |-> [from |-> local_addr, to |-> dispatch.frame.from,
                          seq |-> dispatch.frame.seq, cmd |-> XSLOT_CMD_PONG,
                          data |-> <<>>]]>>
       /\ SelectSeq(dispatch.events, IsCommandCb) = <<>>

\* a Ping addressed to the local node was dispatched while every callback was
\* registered
C3_Witness ==
  /\ dispatch.dispatched
  /\ dispatch.frame.cmd = XSLOT_CMD_PING
  /\ dispatch.frame.to = local_addr
  /\ dispatch.frame.seq = 200
  /\ dispatch.callbacks = CallbackNames
  /\ \E i \in DOMAIN dispatch.events : IsSend(dispatch.events[i])

\* C4: for a Write whose payload parses, with a write callback registered,
\* the Manager invokes the write callback with the sender and the parsed
\* object and after that sends WriteAck(from = local, to = the sender, same
\* seq, result byte 0x00), and nothing else; no Write dispatch sends a frame
\* before a write callback.
C4_WriteCallbackThenAck ==
  (dispatch.dispatched /\ dispatch.frame.cmd = XSLOT_CMD_WRITE)
    => /\ (deserialize(dispatch.frame.data).ok
             /\ "write" \in dispatch.callbacks)
            => CommandEvents =
                 <<[ev |-> "write_cb", addr |-> dispatch.frame.from,
                    obj |-> deserialize(dispatch.frame.data).obj],
                   [ev |-> "send",
                    frame |-> [from |-> local_addr, to |-> dispatch.frame.from,
                               seq |-> dispatch.frame.seq,
                               cmd |-> XSLOT_CMD_WRITE_ACK, data |-> <<0>>]]>>
       /\ \A i, j \in DOMAIN dispatch.events :
            (dispatch.events[i].ev = "send" /\ dispatch.events[j].ev = "write_cb")
              => j < i

\* the Write of AO#7 = 23.5 was dispatched to a registered write callback,
\* which received the object, before the acknowledgement
C4_Witness ==
  /\ dispatch.dispatched
  /\ dispatch.frame.cmd = XSLOT_CMD_WRITE
  /\ dispatch.frame.data = WRITE_AO7
  /\ "write" \in dispatch.callbacks
  /\ Len(CommandEvents) = 2
  /\ CommandEvents[1].ev = "write_cb"
  /\ CommandEvents[1].obj.object_id = 7
  /\ CommandEvents[1].obj.present_value = <<0, 0, 188, 65>>

\* C9: a start that found no device leaves the Manager not running with the
\* Null transport installed, and a start called after it probes again.
C9_FailedStartLeavesManagerRestartable ==
  /\ NoDeviceFound(last_start) => ~running_ /\ transport_ = NULL_TRANSPORT
  /\ (last_start.op = "start" /\ last_start.after_failed) => last_start.probed

(***************************************************************************)
(* Properties of the NodeTable                                             *)
(***************************************************************************)
\* how often an address occurs in a sequence of addresses
Occurrences(s, a) == Cardinality({i \in DOMAIN s : s[i] = a})

\* what a check_timeout(t, callback) step does to the table
C10_CheckTimeoutStep ==
  (last_op'.op = "check_timeout" /\ now' = now)
    => /\ Len(entries_') = Len(entries_)
       /\ \A i \in DOMAIN entries_ :
            /\ entries_'[i].addr = entries_[i].addr
            /\ (entries_[i].online /\ elapsed(now, entries_[i].last_seen) <= last_op'.t)
                 => /\ entries_'[i].online
                    /\ Occurrences(last_op'.fired, entries_[i].addr) = 0
            /\ (entries_[i].online /\ elapsed(now, entries_[i].last_seen) > last_op'.t)
                 => /\ ~entries_'[i].online
                    /\ last_op'.cb
                         => Occurrences(last_op'.fired, entries_[i].addr) = 1
            /\ ~entries_[i].online
                 => /\ ~entries_'[i].online
                    /\ Occurrences(last_op'.fired, entries_[i].addr) = 0
       /\ \A a \in NodeAddrs : fires_since_update'[a] <= 1

\* C10: check_timeout(t) leaves an online node online when now - last_seen
\* <= t; when now - last_seen > t it marks the node offline and invokes the
\* callback for it once; a node already offline gets no further callback
\* until it is updated again.
C10_TimeoutMarksOfflineOnce == [][C10_CheckTimeoutStep]_vars

\* a sweep with a callback ran over a node that an earlier sweep had marked
\* offline (one callback since its last update) and over a node still within
\* its timeout, and invoked no callback
C10_Witness ==
  /\ last_op.op = "check_timeout"
  /\ last_op.cb
  /\ last_op.fired = <<>>
  /\ \E i, j \in DOMAIN entries_ :
       /\ ~entries_[i].online
       /\ fires_since_update[entries_[i].addr] = 1
       /\ elapsed(now, entries_[i].last_seen) > last_op.t
       /\ entries_[j].online
       /\ elapsed(now, entries_[j].last_seen) <= last_op.t

\* C11: every entry marked online was seen no longer ago than the configured
\* heartbeat timeout.
C11_OnlineWithinHeartbeatTimeout ==
  \A i \in DOMAIN entries_ :
    entries_[i].online
      => elapsed(now, entries_[i].last_seen) <= heartbeat_timeout_ms

\* NodeTable::is_online on a given table
OnlineIn(entries, a) ==
  \E i \in DOMAIN entries : entries[i].addr = a /\ entries[i].online

\* the table holds an online entry for this address
IsOnline(a) == OnlineIn(entries_, a)

\* a frame from this address is received
Heard(a) == \E f \in RxFrames : f.from = a /\ on_frame_received(f)

\* C12: while the Manager keeps running, a node from which frames stop
\* arriving is eventually marked offline: either frames from it arrive again
\* and again, or again and again the Manager is stopped or the node is not
\* online.
C12_SilentNodeEventuallyOffline ==
  \A a \in {EDGE1, EDGE2} :
    []<><<Heard(a)>>_vars \/ []<>(~running_ \/ ~IsOnline(a))

\* the table holds an entry for this address
HasEntry(entries, a) == \E i \in DOMAIN entries : entries[i].addr = a

\* the table holds an offline entry for this address
HasOfflineEntry(entries, a) ==
  \E i \in DOMAIN entries : entries[i].addr = a /\ ~entries[i].online

\* a step that is a call of update
UpdateStep == last_op'.op = "update" /\ now' = now

\* the call of update in this step signalled newly online exactly for an
\* absent or offline address and left the address online, seen now
UpdateAccepted ==
  /\ last_op'.is_new <=> (\/ ~HasEntry(entries_, last_op'.addr)
                          \/ HasOfflineEntry(entries_, last_op'.addr))
  /\ \E i \in DOMAIN entries_' :
       /\ entries_'[i].addr = last_op'.addr
       /\ entries_'[i].online
       /\ entries_'[i].last_seen = now

\* the call of update in this step returned false and changed nothing
UpdateRejected == ~last_op'.is_new /\ entries_' = entries_

C13_UpdateStepUnlessFull ==
  UpdateStep =>
    LET a == last_op'.addr
        full == Len(entries_) >= MaxNodes
    IN /\ (HasEntry(entries_, a) \/ ~full) => UpdateAccepted
       /\ (~HasEntry(entries_, a) /\ full)
            => UpdateAccepted \/ UpdateRejected
       /\ (~HasEntry(entries_, a) /\ full
              /\ \A i \in DOMAIN entries_ : entries_[i].online)
            => UpdateRejected

Pos(a) == CHOOSE k \in DOMAIN recent : recent[k] = a

\* the call of update in this step replaced entry i by the new address and
\* left the other entries alone
Evicted(i) ==
  /\ entries_'[i].addr = last_op'.addr
  /\ \A j \in DOMAIN entries_ : j # i => entries_'[j] = entries_[j]

\* what update does for an address not in the full table when an offline
\* entry exists
C14_EvictionStep ==
  (/\ UpdateStep
   /\ ~HasEntry(entries_, last_op'.addr)
   /\ Len(entries_) >= MaxNodes
   /\ \E i \in DOMAIN entries_ : ~entries_[i].online)
    => \E i \in DOMAIN entries_ :
         /\ ~entries_[i].online
         /\ Len(entries_') = Len(entries_)
         /\ Evicted(i)
         /\ \A j \in DOMAIN entries_ :
              (~entries_[j].online
                 /\ entries_[j].last_seen # entries_[i].last_seen)
                => Pos(entries_[i].addr) < Pos(entries_[j].addr)

\* C14: when the table is full, the address is not in it and an offline entry
\* exists, update replaces an offline entry, and no other offline entry was
\* updated longer ago at a different time.
C14_EvictsLeastRecentlySeenOffline == [][C14_EvictionStep]_vars

\* a step in which on_frame_received took a frame
RxStep == dispatch' # dispatch

\* what on_frame_received does with a frame addressed elsewhere
C15_FrameForOthersStep ==
  (/\ RxStep
   /\ dispatch'.frame.to # local_addr
   /\ dispatch'.frame.to # XSLOT_ADDR_BROADCAST)
    => /\ UNCHANGED <<entries_, last_op, fires_since_update, recent>>
       /\ dispatch'.events = <<>>

\* C15: a received frame whose destination is neither the local address nor
\* broadcast changes nothing in the node table, invokes no callback and
\* sends no frame.
C15_FrameForOthersIgnored == [][C15_FrameForOthersStep]_vars

\* a Write addressed to another node arrived from a node the table does not
\* know, while every callback was registered
C15_Witness ==
  /\ dispatch.frame.to = EDGE3
  /\ dispatch.frame.cmd = XSLOT_CMD_WRITE
  /\ dispatch.frame.data = WRITE_BO3
  /\ dispatch.callbacks = CallbackNames
  /\ ~HasEntry(entries_, dispatch.frame.from)

\* a step in which on_frame_received dispatched a frame to handle_frame
DispatchStep ==
  /\ dispatch'.dispatched
  /\ now' = now
  /\ last_op'.op = "update"
  /\ dispatch' # dispatch \/ entries_' # entries_ \/ last_op' # last_op

\* what a dispatch does with the node table and the node callback
C16_NodeCallbackStep ==
  DispatchStep =>
    LET a == dispatch'.frame.from
        came_online == ~OnlineIn(entries_, a) /\ OnlineIn(entries_', a)
    IN /\ last_op'.addr = a
       /\ SelectSeq(dispatch'.events, IsNodeCb) =
            IF came_online /\ "node" \in callbacks
              THEN <<[ev |-> "node_cb", addr |-> a, online |-> TRUE]>>
              ELSE <<>>
       /\ \A k \in DOMAIN dispatch'.events :
            IsNodeCb(dispatch'.events[k]) => k = 1

\* C16: every dispatched frame updates the node table for its sender, and
\* the node callback is invoked with (sender, online), before anything else
\* the frame causes, exactly when that update took the sender from absent
\* or offline to online.
C16_NodeCallbackOncePerTransition == [][C16_NodeCallbackStep]_vars

\* the node callback was invoked for a node that had been in the table,
\* offline, and came back online with this frame
C16_Witness ==
  /\ dispatch.dispatched
  /\ Len(dispatch.events) >= 1
  /\ dispatch.events[1] =
       [ev |-> "node_cb", addr |-> dispatch.frame.from, online |-> TRUE]
  /\ last_op.op = "update"
  /\ last_op.is_new
  /\ Len(entries_) = 2
  /\ entries_[1].addr = dispatch.frame.from
  /\ recent = <<entries_[2].addr, dispatch.frame.from>>

(***************************************************************************)
(* Outbound calls                                                          *)
(***************************************************************************)
\* a step that is an outbound call which evaluated next_seq()
StampingCall == last_call' # last_call /\ last_call'.took_seq

C17_StampStep ==
  /\ StampingCall =>
       /\ last_call'.frame # NoFrame => last_call'.frame.seq = seq_
       /\ seq_' = (seq_ + 1) % 256
  /\ seq_' # seq_ => StampingCall

\* C17: every report, write, query or ping that gets as far as building its
\* frame stamps the frame with the value seq_ has when the call is made and
\* leaves seq_ one higher modulo 256, so after 255 comes 0; nothing else
\* changes seq_.
C17_SeqStampedThenIncremented == [][C17_StampStep]_vars

\* a frame went out with seq 255 and the counter is back at 0
C17_Witness ==
  /\ last_call.result = "Ok"
  /\ last_call.frame.seq = 255
  /\ seq_ = 0

\* the type the claim expects the hub to report for an object of this type
canonical_type(obj_type) ==
  IF is_analog_type(obj_type) THEN XSLOT_OBJ_ANALOG_INPUT
  ELSE IF is_binary_type(obj_type) THEN XSLOT_OBJ_BINARY_INPUT
  ELSE XSLOT_OBJ_ANALOG_VALUE

\* the objects the claim expects the hub's report callback to receive
Collapsed(objects) ==
  [k \in 1..Len(objects) |->
     [object_id |-> objects[k].object_id,
      object_type |-> canonical_type(objects[k].object_type),
      flags |-> 0,
      present_value |-> objects[k].present_value]]

\* the hub dispatched the Report frame a peer built from this batch, with a
\* report callback registered
ReportDispatched(objects) ==
  /\ peer_report(objects).ok
  /\ dispatch.dispatched
  /\ dispatch.frame = peer_report(objects).frame
  /\ "report" \in dispatch.callbacks

\* C18: the frame report builds for a batch is a Report frame to the hub in
\* the incremental format, and when the hub dispatches that frame its report
\* callback is called with the objects of the batch, ids and values
\* unchanged, types collapsed and flags 0.
C18_ReportReachesHubCallback ==
  \A objects \in ReportBatches :
    /\ peer_report(objects).ok =>
         /\ peer_report(objects).frame.cmd = XSLOT_CMD_REPORT
         /\ peer_report(objects).frame.to = XSLOT_ADDR_HUB
         /\ Len(peer_report(objects).frame.data) >= 4
         /\ is_incremental_format(peer_report(objects).frame.data[4])
    /\ ReportDispatched(objects) =>
         \E i \in DOMAIN dispatch.events :
           /\ dispatch.events[i].ev = "report_cb"
           /\ dispatch.events[i].objects = Collapsed(objects)

\* the errors the claim allows an outbound call to return
OutboundErrors == {"InvalidParam", "NoMemory", "SendFailed", "NotInitialized"}

\* C19: an outbound call that fails returns InvalidParam, NoMemory,
\* SendFailed or NotInitialized, and a call with valid arguments made while
\* the Manager holds no Direct or TPMesh transport returns NotInitialized and
\* writes nothing.
C19_OutboundFailuresAreListed ==
  /\ (last_call.op # "none" /\ last_call.result # "Ok") =>
       last_call.result \in OutboundErrors
  /\ (last_call.frame # NoFrame
        /\ last_call.transport \notin {DIRECT_TRANSPORT, TPMESH_TRANSPORT}) =>
       /\ last_call.result = "NotInitialized"
       /\ ~last_call.on_wire

C21_TableAccessesExclusive ==
  \A t, u \in NtThreads :
    (t # u /\ nt_in[t].op \in NtWriters) => nt_in[u].op = "none"

C23_DecodeInvertsEncode ==
  (cd_buf # <<>> /\ cd_flip = -1 /\ cd_res # NoResult) =>
    /\ cd_res.ok
    /\ cd_res.frame.from = cd_frame.from
    /\ cd_res.frame.to = cd_frame.to
    /\ cd_res.frame.seq = cd_frame.seq
    /\ cd_res.frame.cmd = cd_frame.cmd
    /\ cd_res.frame.len = Len(cd_frame.data)
    /\ cd_res.frame.data = cd_frame.data

\* the frame with the full payload of 128 bytes was encoded and decoded
C23_Witness ==
  /\ Len(cd_frame.data) = MAX_DATA_LEN
  /\ Len(cd_buf) = MAX_SIZE
  /\ cd_flip = -1
  /\ cd_res # NoResult
  /\ cd_res.ok

\* C24: after one bit of the header or payload of an encoded frame was
\* inverted, Frame::decode returns CrcError.
C24_BitFlipGivesCrcError ==
  (cd_flip # -1 /\ cd_res # NoResult) =>
    (~cd_res.ok /\ cd_res.error = "CrcError")

(***************************************************************************)
(* Properties of the Direct transport                                      *)
(***************************************************************************)
\* the whole stream, garbage and frame, has arrived at the port
StreamArrived == d_stream # <<>> /\ d_pos = Len(d_stream)

\* C25: once garbage followed by a complete valid frame has arrived at a
\* started Direct transport, the receive callback gets exactly that frame.
C25_GarbageThenFrameDelivered ==
  StreamArrived ~> (d_stream # <<>> /\ d_delivered = <<FrameOf(d_stream)>>)

\* try_parse_frame, were it run on the bytes waiting at the port, would
\* drop the garbage and hand over exactly the frame
C25_ParserAloneDelivers ==
  StreamArrived =>
    try_parse_frame(d_line, <<>>)
      = [rx_buffer |-> <<>>, delivered |-> <<FrameOf(d_stream)>>]

(***************************************************************************)
(* Properties of the AT driver with its mutexes                            *)
(***************************************************************************)
\* C26: a sendCommand that returns because a terminal line ended its wait
\* returns on the line the modem sent in answer to the command it wrote,
\* never on the late answer to an earlier command that timed out.
C26_ResolvedByOwnTerminalLine ==
  \A t \in LkThreads :
    (lk_ret[t].via = "pred" /\ lk_ret[t].by.text \in TerminalLines) =>
      lk_ret[t].by.for = lk_ret[t].cmd

\* C27: the line that ends WAITING_RESPONSE is a terminal line, OK or
\* ERROR; a URC that only contains those letters ends nothing.
C27_OnlyTerminalLineEndsWait ==
  lk_ender # NoLine => lk_ender.text \in TerminalLines

\* C28: while a URC handler runs the receiver thread does not hold
\* sync_mutex_, the mutex of the command state.
C28_HandlerRunsWithoutCommandMutex ==
  lk_pc[RX] \in {"handler", "handler_waiting", "blocked"} =>
    sync_mutex_.holder # RX

\* thread t has called sendCommand and not returned from it
InSendCommand(t) ==
  lk_pc[t] \in {"locking", "waiting", "handler_waiting", "blocked"}

\* C29: every sendCommand call returns, on any thread, the receiver thread
\* inside a URC handler included: no call blocks for good.
C29_EverySendCommandReturns ==
  \A t \in LkThreads : InSendCommand(t) ~> ~InSendCommand(t)

\* a step in which a sendCommand returns on timeout
TimeoutReturn ==
  \E t \in LkThreads :
    lk_ret'[t] # lk_ret[t] /\ lk_ret'[t].via = "timeout"

\* C30: every WAITING_RESPONSE episode ends in IDLE, and a sendCommand that
\* returns on timeout leaves state_ IDLE, so that the next sendCommand
\* passes the busy check.
C30_WaitEndsInIdle ==
  /\ (lk_state = WAITING_RESPONSE) ~> (lk_state = IDLE)
  /\ [][TimeoutReturn => lk_state' = IDLE]_vars

\* a command timed out and a later command was accepted and written
C30_Witness ==
  \E t, u \in LkThreads :
    /\ lk_ret[t].via = "timeout"
    /\ lk_cmd[u] > lk_ret[t].cmd
    /\ lk_state = WAITING_RESPONSE

\* C31: a sendCommand called while another command is in flight waits behind
\* it and is written once that one has resolved: no call returns false on
\* the busy check without writing its command.
C31_SecondCommandSerialized ==
  \A t \in AppThreads : lk_ret[t].via # "busy"

\* a successful WriteAck (result byte 0x00) among the events of the last
\* dispatch
SuccessAckSent ==
  \E i \in DOMAIN dispatch.events :
    /\ dispatch.events[i].ev = "send"
    /\ dispatch.events[i].frame.cmd = XSLOT_CMD_WRITE_ACK
    /\ dispatch.events[i].frame.data = <<XSLOT_OK>>

\* C32: a WriteAck with result 0x00 is sent only for a Write whose payload
\* parsed into an object that was handed to the write callback.
C32_SuccessAckOnlyForDeliveredWrite ==
  SuccessAckSent =>
    /\ dispatch.frame.cmd = XSLOT_CMD_WRITE
    /\ parse_write(dispatch.frame).ok
    /\ \E j \in DOMAIN dispatch.events :
         /\ dispatch.events[j].ev = "write_cb"
         /\ dispatch.events[j].obj = parse_write(dispatch.frame).obj

\* a step in which the entry of address a goes from online to offline
MarkedOffline(a) == IsOnline(a) /\ HasOfflineEntry(entries_', a)

\* C33: when a sweep run through Manager::check_node_timeout marks a node
\* offline and the user has registered a node callback, that callback is
\* called with (addr, false).
C33_SweepStep ==
  \A a \in NodeAddrs :
    (MarkedOffline(a) /\ "node" \in callbacks) =>
      \E i \in DOMAIN sweep_calls' :
        sweep_calls'[i] = [ev |-> "node_cb", addr |-> a, online |-> FALSE]

C33_SweepCallsNodeCallback == [][C33_SweepStep]_vars

\* the objects the payload of a Report frame carries: parse_report with room
\* for as many objects as the payload has bytes
CarriedObjects(frame) == parse_report(frame, Len(frame.data))

\* C34: when a valid Report frame is dispatched with a report callback
\* registered, the callback receives every object the payload carries, in
\* payload order.
C34_ReportCallbackGetsEveryObject ==
  (/\ dispatch.dispatched
   /\ dispatch.frame.cmd = XSLOT_CMD_REPORT
   /\ Len(dispatch.frame.data) <= MAX_DATA_LEN
   /\ "report" \in dispatch.callbacks
   /\ CarriedObjects(dispatch.frame).ok
   /\ Len(CarriedObjects(dispatch.frame).objects) > 0) =>
    \E i \in DOMAIN dispatch.events :
      /\ dispatch.events[i].ev = "report_cb"
      /\ dispatch.events[i].objects = CarriedObjects(dispatch.frame).objects

\* a step that is an outbound call which failed before a frame reached the
\* transport: on its input, in the builder, or because the Manager is not
\* started
FailedBeforeSend ==
  /\ last_call' # last_call
  /\ last_call'.result \in {"InvalidParam", "NoMemory", "NotInitialized"}

\* C35: an outbound call that fails before any frame is sent does not
\* consume a sequence number.
C35_FailedCallKeepsSeq == [][FailedBeforeSend => seq_' = seq_]_vars

\* C36: a start that found a mesh modem and reports success has configured
\* the transport's address, cell and power, then installed the receive
\* callback, then called transport.start, in that order.
C36_StartConfiguresThenInstallsThenStarts ==
  (/\ last_start.op = "start"
   /\ last_start.probed
   /\ last_start.mesh
   /\ last_start.result = "Ok") =>
    last_start.calls = <<"configure", "set_receive_callback", "start">>

\* every byte of the stream has arrived and the receiver has read them all
StreamReceived == StreamArrived /\ d_line = <<>>

\* C37: a malformed or CRC-bad candidate never blocks the Direct receiver:
\* once every byte of a valid frame that follows corrupted bytes has been
\* received, that frame has been delivered.
C37_FrameAfterCorruptionDelivered ==
  StreamReceived =>
    \A bytes \in ValidFramesOf(d_stream) :
      \E i \in DOMAIN d_delivered : d_delivered[i] = bytes

\* C37, the candidates that are complete: after a Ping with a bad CRC or a
\* bad length byte the frame that follows is delivered, and nothing else.
C37_CompleteCandidateSkipped ==
  (StreamReceived /\ Len(d_stream) >= 2 * MIN_SIZE) =>
    \A bytes \in ValidFramesOf(d_stream) : d_delivered = <<bytes>>

\* the table is full and every entry is online
FullAndAllOnline(entries) ==
  /\ Len(entries) >= MaxNodes
  /\ \A i \in DOMAIN entries : entries[i].online

\* C38: an update for an address that is not in a full table without an
\* offline entry changes no entry and signals nothing; and no update removes
\* an entry that is online.
C38_FullStep ==
  UpdateStep =>
    /\ (~HasEntry(entries_, last_op'.addr) /\ FullAndAllOnline(entries_))
          => (entries_' = entries_ /\ ~last_op'.is_new)
    /\ \A i \in DOMAIN entries_ :
         entries_[i].online => OnlineIn(entries_', entries_[i].addr)

C38_FullTableUpdateFailsSilently == [][C38_FullStep]_vars

\* an update for a new address was refused by a full table of online
\* entries, some of them seen before the current tick
C38_Witness ==
  /\ last_op.op = "update"
  /\ ~last_op.is_new
  /\ ~HasEntry(entries_, last_op.addr)
  /\ FullAndAllOnline(entries_)
  /\ \E i \in DOMAIN entries_ : entries_[i].last_seen # now

C40_TableBoundedAndUnique ==
  /\ Len(entries_) <= MaxNodes
  /\ \A i, j \in DOMAIN entries_ :
       entries_[i].addr = entries_[j].addr => i = j

\* remove took an entry out of the table; the entry that is left has been
\* marked offline by a sweep
C40_Witness ==
  /\ last_op.op = "remove"
  /\ ~HasEntry(entries_, last_op.addr)
  /\ Len(entries_) = MaxNodes - 1
  /\ \E a \in NodeAddrs : recent = <<a>> /\ HasOfflineEntry(entries_, a)

\* C24, weaker: after such a flip Frame::decode returns some error.
C24_BitFlipGivesError ==
  (cd_flip # -1 /\ cd_res # NoResult) => ~cd_res.ok
====
